---- MODULE Spec2Model ----
(***************************************************************************)
(* A model of the betty backtesting core: the Account state machine        *)
(* (core/src/core/account.rs), the default RiskStrategy::entry sizing      *)
(* (core/src/core/strategy.rs), the Trade projection (src/core/trade.rs),  *)
(* the Market gate (src/core/market.rs), the Backtest orchestrator         *)
(* (core/src/core/backtest.rs), the Donchian stop and channel and the     *)
(* MACD strategy (core/src/strategies), the EMA (core/src/core/maths.rs)   *)
(* and the addition of a month to a timestamp (src/core/price.rs).         *)
(*                                                                         *)
(* Points are integers (one unit = one point).  A CurrencyAmount is the    *)
(* integer number of 10^-CURRENCY_DECIMAL_PLACES units of its amount, so   *)
(* round_dp(CURRENCY_DECIMAL_PLACES) is integer rounding.  Every amount    *)
(* in the model carries the same currency tag.                             *)
(* Option values are sequences: None is << >> and Some(x) is << x >>.      *)
(* The Decimals of the EMA and of the MACD are exact fractions.            *)
(***************************************************************************)
EXTENDS Integers, Sequences, FiniteSets, TLC

VARIABLES
    balance,        \* Account.balance
    price_history,  \* Account.price_history.history, newest first
    closed_trades,  \* Account.closed_trades
    live_trade,     \* Account.live_trade : Option<Entry>
    call,           \* the last call made on the account: update_price with
                    \* its frame, the trend and the answer of stop(), or
                    \* log_order with the kind and position id of its order
    ret,            \* what that call returned (or that it panicked)
    p_id,           \* Backtest.p_id
    trace,          \* Backtest.trace
    orders          \* the orders of the current frame that Backtest::run
                    \* has still to place

\* the fields of the Backtest around the account
backtest == << p_id, trace, orders >>

vars == << balance, price_history, closed_trades, live_trade, call, ret,
           p_id, trace, orders >>

----------------------------------------------------------------------------
(* Bounds of the model *)

MaxHistory == 1     \* update_price is called at most MaxHistory times
MaxClosed == 1      \* at most MaxClosed positions are closed
MaxFeed == 2        \* a price feed is at most MaxFeed frames long
MaxRun == 3         \* Backtest::run is given at most MaxRun frames
MaxChannel == 3     \* Donchian: at most MaxChannel frames of history, and
                    \* channels of 1 to MaxChannel frames
MaxSamples == 4     \* EMA: inputs of at most MaxSamples samples
MaxMacdHistory == 8 \* MACD: at most MaxMacdHistory frames of history

(* Program constants *)

CURRENCY_DECIMAL_PLACES == 6
OpeningBalanceUnits == 1000     \* opening balance of the test fixture
RiskPerTradeNum == 1            \* risk_per_trade = 0.01 = 1 / 100
RiskPerTradeDen == 100
Spread == 1                     \* ask - bid of the quotes of the test fixture
NegLnEmaErrorMicros == 2302585  \* -ln(EMA_ERROR), EMA_ERROR = 0.1, in millionths
DECIMAL_MAX == 1000000          \* Decimal::MAX, here a level above every price;
                                \* Decimal::MIN is -DECIMAL_MAX
DONCHIAN_LENGTH == 2            \* channel_length of the short channel of the tests

----------------------------------------------------------------------------
(* Decimal arithmetic *)

RECURSIVE Pow10(_)
Pow10(n) == IF n = 0 THEN 1 ELSE 10 * Pow10(n - 1)

Scale == Pow10(CURRENCY_DECIMAL_PLACES)

Abs(x) == IF x < 0 THEN -x ELSE x

RECURSIVE Gcd(_, _)
Gcd(a, b) == IF b = 0 THEN a ELSE Gcd(b, a % b)

\* n / d rounded to an integer, midpoint to the nearest even (d > 0):
\* Decimal::round_dp on the quotient.
RoundDiv(n, d) ==
    LET q == Abs(n) \div d
        r == Abs(n) % d
        m == IF 2 * r > d \/ (2 * r = d /\ q % 2 = 1) THEN q + 1 ELSE q
    IN  IF n < 0 THEN -m ELSE m

\* CurrencyAmount * Decimal, for an integer number of points
MulPoints(amount, points) == amount * points

\* CurrencyAmount / Decimal, for a non-zero integer number of points
DivPoints(amount, points) ==
    IF points < 0 THEN RoundDiv(-amount, -points) ELSE RoundDiv(amount, points)

\* CurrencyAmount * risk_per_trade
MulFraction(amount, num, den) == RoundDiv(amount * num, den)

\* CurrencyAmount / CurrencyAmount: None when the divisor is zero, else
\* the ratio, kept as a fraction in lowest terms with positive denominator
DivAmount(a, b) ==
    IF b = 0 THEN << >>
    ELSE LET g == Gcd(Abs(a), Abs(b))
             s == IF b < 0 THEN -1 ELSE 1
         IN  << [num |-> s * (a \div g), den |-> s * (b \div g)] >>

\* a Decimal that is not an amount: the fraction n / d (d # 0) in lowest
\* terms with a positive denominator
Dec(n, d) == DivAmount(n, d)[1]

\* the sum over the least common denominator
DecAdd(a, b) ==
    LET g == Gcd(a.den, b.den)
    IN  Dec(a.num * (b.den \div g) + b.num * (a.den \div g),
            (a.den \div g) * b.den)

DecSub(a, b) == DecAdd(a, [num |-> -b.num, den |-> b.den])

\* the product, each numerator first reduced against the other denominator
DecMul(a, b) ==
    LET g == Gcd(Abs(a.num), b.den)
        h == Gcd(Abs(b.num), a.den)
    IN  Dec((a.num \div g) * (b.num \div h), (a.den \div h) * (b.den \div g))

DecLess(a, b) == a.num * b.den < b.num * a.den
DecLeq(a, b) == a.num * b.den <= b.num * a.den

----------------------------------------------------------------------------
(* EMA: the exponential moving average iterator *)

\* EMA::new: alpha = 2.0 / (length + 1)
Alpha(length) == Dec(2, length + 1)

\* the first sample is smoothed too, against a previous value of zero
EmaNext_SeedZero(prev, current, length) ==
    IF prev = << >>
    THEN DecMul(current, Alpha(length))
    ELSE DecAdd(DecMul(current, Alpha(length)),
                DecMul(prev[1], DecSub(Dec(1, 1), Alpha(length))))

\* the weights of the sample and of the previous value are exchanged
EmaNext_WeightsSwapped(prev, current, length) ==
    IF prev = << >>
    THEN DecMul(current, Dec(1, 1))
    ELSE DecAdd(DecMul(prev[1], Alpha(length)),
                DecMul(current, DecSub(Dec(1, 1), Alpha(length))))

\* the sample counts for alpha / 2
EmaNext_HalfAlpha(prev, current, length) ==
    IF prev = << >>
    THEN DecMul(current, Dec(1, 1))
    ELSE DecAdd(DecMul(current, Dec(1, length + 1)),
                DecMul(prev[1], DecSub(Dec(1, 1), Alpha(length))))

\* EMA::next for a sample `current`: the value yielded, which is also the
\* next self.prev
EmaNext(prev, current, length) ==
    IF prev = << >>
    THEN DecMul(current, Dec(1, 1))
    ELSE DecAdd(DecMul(current, Alpha(length)),
                DecMul(prev[1], DecSub(Dec(1, 1), Alpha(length))))

\* EMA::next called until the input is exhausted, `output` being the values
\* yielded so far and its last one self.prev
RECURSIVE EmaCollect(_, _, _)
EmaCollect(input, length, output) ==
    IF Len(output) = Len(input) THEN output
    ELSE LET n == Len(output)
             prev == IF n = 0 THEN << >> ELSE << output[n] >>
         IN  EmaCollect(input, length,
                 Append(output, EmaNext(prev, input[n + 1], length)))

\* iter.ema(length).collect()
Ema(input, length) == EmaCollect(input, length, << >>)

----------------------------------------------------------------------------
(* Data model *)

None == << >>
Some(x) == << x >>

\* the bid and ask levels of the quotes, and the timestamps of a caller's
\* orders
Bids == {1, 2}
Asks == {b + Spread : b \in Bids}
OrderTimes == {1}
LedgerTimes == {1, 2}
StopDistances == {0, 1}
StopLevels == Bids \cup Asks
Directions == {"Buy", "Sell"}
Trends == {"Neutral", "Bullish", "Bearish"}
PositionIds == {"1", "2"}

Price(bid, ask) == [ask |-> ask, bid |-> bid]

Frame(open, close, high, low, close_time) ==
    [close |-> close, high |-> high, low |-> low, open |-> open,
     close_time |-> close_time]

Entry(position_id, direction, price, stop, size, time) ==
    [position_id |-> position_id, direction |-> direction, price |-> price,
     stop |-> stop, size |-> size, time |-> time]

Exit(position_id, price, time) ==
    [position_id |-> position_id, price |-> price, time |-> time]

Open(entry) == [kind |-> "Open", entry |-> entry]
Close(exit) == [kind |-> "Close", exit |-> exit]
Stop(exit) == [kind |-> "Stop", exit |-> exit]

\* the position id an order carries
OrderId(order) ==
    IF order.kind = "Open" THEN order.entry.position_id
    ELSE order.exit.position_id

\* the trade takes the position id of the exit
TradeClosed_ExitId(entry, exit) ==
    LET price_diff == exit.price - entry.price
        profit == IF entry.direction = "Buy"
                  THEN MulPoints(entry.size, exit.price - entry.price)
                  ELSE MulPoints(entry.size, entry.price - exit.price)
        outcome == IF profit > 0 THEN "Profit" ELSE "Loss"
        risk == MulPoints(entry.size, Abs(entry.price - entry.stop))
        rr == DivAmount(profit, risk)
    IN  IF rr = None THEN None
        ELSE Some([id |-> exit.position_id,
                   status |-> "Closed",
                   direction |-> entry.direction,
                   entry_time |-> entry.time,
                   entry_price |-> entry.price,
                   exit_time |-> Some(exit.time),
                   exit_price |-> Some(exit.price),
                   stop |-> entry.stop,
                   size |-> entry.size,
                   risk |-> risk,
                   outcome |-> outcome,
                   price_diff |-> price_diff,
                   profit |-> profit,
                   risk_reward |-> rr[1]])

\* the trade is dated from its exit
TradeClosed_EnteredAtExit(entry, exit) ==
    LET price_diff == exit.price - entry.price
        profit == IF entry.direction = "Buy"
                  THEN MulPoints(entry.size, exit.price - entry.price)
                  ELSE MulPoints(entry.size, entry.price - exit.price)
        outcome == IF profit > 0 THEN "Profit" ELSE "Loss"
        risk == MulPoints(entry.size, Abs(entry.price - entry.stop))
        rr == DivAmount(profit, risk)
    IN  IF rr = None THEN None
        ELSE Some([id |-> entry.position_id,
                   status |-> "Closed",
                   direction |-> entry.direction,
                   entry_time |-> exit.time,
                   entry_price |-> entry.price,
                   exit_time |-> Some(exit.time),
                   exit_price |-> Some(exit.price),
                   stop |-> entry.stop,
                   size |-> entry.size,
                   risk |-> risk,
                   outcome |-> outcome,
                   price_diff |-> price_diff,
                   profit |-> profit,
                   risk_reward |-> rr[1]])

\* a trade that only breaks even counts as a Profit
TradeClosed_ZeroWins(entry, exit) ==
    LET price_diff == exit.price - entry.price
        profit == IF entry.direction = "Buy"
                  THEN MulPoints(entry.size, exit.price - entry.price)
                  ELSE MulPoints(entry.size, entry.price - exit.price)
        outcome == IF profit >= 0 THEN "Profit" ELSE "Loss"
        risk == MulPoints(entry.size, Abs(entry.price - entry.stop))
        rr == DivAmount(profit, risk)
    IN  IF rr = None THEN None
        ELSE Some([id |-> entry.position_id,
                   status |-> "Closed",
                   direction |-> entry.direction,
                   entry_time |-> entry.time,
                   entry_price |-> entry.price,
                   exit_time |-> Some(exit.time),
                   exit_price |-> Some(exit.price),
                   stop |-> entry.stop,
                   size |-> entry.size,
                   risk |-> risk,
                   outcome |-> outcome,
                   price_diff |-> price_diff,
                   profit |-> profit,
                   risk_reward |-> rr[1]])

\* Trade::closed; None stands for the panic of unwrap() on a zero risk
TradeClosed(entry, exit) ==
    LET price_diff == exit.price - entry.price
        profit == IF entry.direction = "Buy"
                  THEN MulPoints(entry.size, exit.price - entry.price)
                  ELSE MulPoints(entry.size, entry.price - exit.price)
        outcome == IF profit > 0 THEN "Profit" ELSE "Loss"
        risk == MulPoints(entry.size, Abs(entry.price - entry.stop))
        rr == DivAmount(profit, risk)
    IN  IF rr = None THEN None
        ELSE Some([id |-> entry.position_id,
                   status |-> "Closed",
                   direction |-> entry.direction,
                   entry_time |-> entry.time,
                   entry_price |-> entry.price,
                   exit_time |-> Some(exit.time),
                   exit_price |-> Some(exit.price),
                   stop |-> entry.stop,
                   size |-> entry.size,
                   risk |-> risk,
                   outcome |-> outcome,
                   price_diff |-> price_diff,
                   profit |-> profit,
                   risk_reward |-> rr[1]])

\* Trade::open; None stands for the panic of unwrap() on a zero risk
TradeOpen(entry, latest_price) ==
    LET price_diff == IF entry.direction = "Buy"
                      THEN latest_price.bid - entry.price
                      ELSE latest_price.ask - entry.price
        profit == IF entry.direction = "Buy"
                  THEN MulPoints(entry.size, latest_price.bid - entry.price)
                  ELSE MulPoints(entry.size, entry.price - latest_price.ask)
        outcome == IF profit > 0 THEN "Profit" ELSE "Loss"
        risk == MulPoints(entry.size, Abs(entry.price - entry.stop))
        rr == DivAmount(profit, risk)
    IN  IF rr = None THEN None
        ELSE Some([id |-> entry.position_id,
                   status |-> "Open",
                   direction |-> entry.direction,
                   entry_time |-> entry.time,
                   entry_price |-> entry.price,
                   exit_time |-> None,
                   exit_price |-> None,
                   stop |-> entry.stop,
                   size |-> entry.size,
                   risk |-> risk,
                   outcome |-> outcome,
                   price_diff |-> price_diff,
                   profit |-> profit,
                   risk_reward |-> rr[1]])

\* the exit is dated as the entry was
EntryExit_EntryTime(entry, price, time) ==
    Exit(entry.position_id,
         IF entry.direction = "Buy" THEN price.bid ELSE price.ask,
         entry.time)

\* Entry::exit
EntryExit(entry, price, time) ==
    Exit(entry.position_id,
         IF entry.direction = "Buy" THEN price.bid ELSE price.ask,
         time)

\* the two directions exchanged
TrendDirection_Swapped(trend) ==
    CASE trend = "Neutral" -> None
      [] trend = "Bullish" -> Some("Sell")
      [] trend = "Bearish" -> Some("Buy")

\* TryFrom<Trend> for Direction; None stands for Err
TrendDirection(trend) ==
    CASE trend = "Neutral" -> None
      [] trend = "Bullish" -> Some("Buy")
      [] trend = "Bearish" -> Some("Sell")

----------------------------------------------------------------------------
(* Strategies *)

\* RiskStrategy::stop is a trait method: an implementation answers
\* Err(NotEnoughHistory) or Ok(stop level)
NotEnoughHistory == [err |-> "NotEnoughHistory"]
OkStop(s) == [ok |-> s]
StopAnswers == {NotEnoughHistory} \cup {OkStop(s) : s \in StopLevels}

\* the entry is priced and timed on the oldest frame of the history
RiskEntry_Oldest(stopAnswer, direction, history, risk) ==
    IF stopAnswer = NotEnoughHistory THEN [err |-> "NotEnoughHistory"]
    ELSE LET stop == stopAnswer.ok
             latest_close == history[Len(history)].close
             price == IF direction = "Buy" THEN latest_close.ask
                      ELSE latest_close.bid
             time == history[Len(history)].close_time
             stop_distance == Abs(price - stop)
         IN  IF stop_distance = 0 THEN [panic |-> "Division by zero"]
             ELSE [ok |-> Entry("", direction, price, stop,
                                DivPoints(risk, stop_distance), time)]

\* RiskStrategy::entry, given the answer of stop(): Err(NotEnoughHistory),
\* Ok(entry), or a panic when the stop distance is zero
RiskEntry(stopAnswer, direction, history, risk) ==
    IF stopAnswer = NotEnoughHistory THEN [err |-> "NotEnoughHistory"]
    ELSE LET stop == stopAnswer.ok
             latest_close == history[1].close
             price == IF direction = "Buy" THEN latest_close.ask
                      ELSE latest_close.bid
             time == history[1].close_time
             stop_distance == Abs(price - stop)
         IN  IF stop_distance = 0 THEN [panic |-> "Division by zero"]
             ELSE [ok |-> Entry("", direction, price, stop,
                                DivPoints(risk, stop_distance), time)]

----------------------------------------------------------------------------
(* Donchian: RiskStrategy::stop *)

Min(a, b) == IF a < b THEN a ELSE b
Max(a, b) == IF a > b THEN a ELSE b

\* the fold over the first n frames of the history, begun with the limits
\* of the newest frame: (lowest low bid, highest high ask)
RECURSIVE ChannelLimits(_, _)
ChannelLimits(history, n) ==
    IF n = 0 THEN << history[1].low.bid, history[1].high.ask >>
    ELSE LET limits == ChannelLimits(history, n - 1)
         IN  << Min(limits[1], history[n].low.bid),
                Max(limits[2], history[n].high.ask) >>

\* the channel spans the whole history
DonchianStop_WholeHistory(channel_length, direction, history) ==
    IF Len(history) < channel_length THEN NotEnoughHistory
    ELSE LET channel_limits == ChannelLimits(history, Len(history))
         IN  OkStop(IF direction = "Buy" THEN channel_limits[1]
                    ELSE channel_limits[2])

\* Donchian::stop
DonchianStop(channel_length, direction, history) ==
    IF Len(history) < channel_length THEN NotEnoughHistory
    ELSE LET channel_limits == ChannelLimits(history, channel_length)
         IN  OkStop(IF direction = "Buy" THEN channel_limits[1]
                    ELSE channel_limits[2])

\* every write goes to the first slot of the buffer
BufIdx_First(idx, channel_length) == 0

\* idx % self.channel_length
BufIdx(idx, channel_length) == idx % channel_length

\* the smallest lower limit and the greatest upper limit in the buffer
BufferLimits(buffer) ==
    << CHOOSE lo \in { buffer[j][1] : j \in DOMAIN buffer } :
           \A j \in DOMAIN buffer : lo <= buffer[j][1],
       CHOOSE hi \in { buffer[j][2] : j \in DOMAIN buffer } :
           \A j \in DOMAIN buffer : hi >= buffer[j][2] >>

\* the map over the enumerated frames, from the frame after those of
\* `output`: the frame's limits are written to its slot of the buffer and
\* the limits of the buffer are yielded
RECURSIVE ChannelCollect(_, _, _, _)
ChannelCollect(history, channel_length, buffer, output) ==
    IF Len(output) = Len(history) THEN output
    ELSE LET idx == Len(output)
             frame == history[idx + 1]
             buf_idx == BufIdx(idx, channel_length)
             written == [buffer EXCEPT ![buf_idx + 1] =
                             << frame.low.bid, frame.high.ask >>]
         IN  ChannelCollect(history, channel_length, written,
                            Append(output, BufferLimits(written)))

\* Donchian::channel over frames oldest first, for a channel of a frame at
\* least
DonchianChannel(channel_length, history) ==
    ChannelCollect(history, channel_length,
                   [j \in 1..channel_length |-> << DECIMAL_MAX, -DECIMAL_MAX >>],
                   << >>)

----------------------------------------------------------------------------
(* MACD::sentiment *)

Sentiments == {"Neutral", "Bullish", "Bearish"}

\* a Bullish sentiment is only left strictly below the exit limit
MacdSentiment_StrictExit(sentiment, macd, entry_lim, exit_lim) ==
    IF sentiment \in {"Bearish", "Neutral"} /\ macd > entry_lim
        THEN "Bullish"
    ELSE IF sentiment \in {"Bullish", "Neutral"} /\ macd < -entry_lim
        THEN "Bearish"
    ELSE IF sentiment = "Bullish" /\ macd < exit_lim
        THEN "Neutral"
    ELSE IF sentiment = "Bearish" /\ macd >= -exit_lim
        THEN "Neutral"
    ELSE sentiment

\* the match on the last sentiment, its guarded arms tried in order
MacdSentiment(sentiment, macd, entry_lim, exit_lim) ==
    IF sentiment \in {"Bearish", "Neutral"} /\ macd > entry_lim
        THEN "Bullish"
    ELSE IF sentiment \in {"Bullish", "Neutral"} /\ macd < -entry_lim
        THEN "Bearish"
    ELSE IF sentiment = "Bullish" /\ macd <= exit_lim
        THEN "Neutral"
    ELSE IF sentiment = "Bearish" /\ macd >= -exit_lim
        THEN "Neutral"
    ELSE sentiment

----------------------------------------------------------------------------
(* Market::validate_entry *)

Ok == [kind |-> "Ok"]

\* a Market; margin_factor is the fraction num / den
Market(margin_num, margin_den, min_deal_size, min_stop_distance) ==
    [margin_factor |-> [num |-> margin_num, den |-> margin_den],
     min_deal_size |-> min_deal_size,
     min_stop_distance |-> min_stop_distance]

MarketErr(e) == [kind |-> "Err", err |-> e]

\* order.size * order.price * self.margin_factor
MarginRequirement(market, order) ==
    MulFraction(MulPoints(order.size, order.price),
                market.margin_factor.num, market.margin_factor.den)

\* the stop distance is checked before the margin
ValidateEntry_StopFirst(market, order, bal) ==
    IF order.size < market.min_deal_size THEN MarketErr("DealTooSmall")
    ELSE IF Abs(order.price - order.stop) < market.min_stop_distance
        THEN MarketErr("StopTooClose")
    ELSE IF MarginRequirement(market, order) > bal
        THEN MarketErr("InsufficientBalance")
    ELSE Ok

\* the three checks in order, each returning early
ValidateEntry(market, order, bal) ==
    IF order.size < market.min_deal_size THEN MarketErr("DealTooSmall")
    ELSE IF MarginRequirement(market, order) > bal
        THEN MarketErr("InsufficientBalance")
    ELSE IF Abs(order.price - order.stop) < market.min_stop_distance
        THEN MarketErr("StopTooClose")
    ELSE Ok

----------------------------------------------------------------------------
(* Account::update_price *)

\* the frame is put behind the history
PushFront_Back(history, frame) == Append(history, frame)

\* VecDeque::push_front
PushFront(history, frame) == << frame >> \o history

\* the stop also fires when the extreme only touches the stop level
StopTriggered_Inclusive(lt, frame) ==
    \/ lt.direction = "Buy" /\ frame.low.bid <= lt.stop
    \/ lt.direction = "Sell" /\ frame.high.ask >= lt.stop

\* the two stop guards of the exit match
StopTriggered(lt, frame) ==
    \/ lt.direction = "Buy" /\ frame.low.bid < lt.stop
    \/ lt.direction = "Sell" /\ frame.high.ask > lt.stop

\* the trend arms are tried before the stop guards
ExitOrders_TrendFirst(live, trend, frame) ==
    IF live = None THEN << >>
    ELSE LET lt == live[1]
             time == frame.close_time
         IN  IF trend = "Neutral"
                 THEN << Close(EntryExit(lt, frame.close, time)) >>
             ELSE IF trend = "Bullish" /\ lt.direction = "Sell"
                 THEN << Close(EntryExit(lt, frame.close, time)) >>
             ELSE IF trend = "Bearish" /\ lt.direction = "Buy"
                 THEN << Close(EntryExit(lt, frame.close, time)) >>
             ELSE IF StopTriggered(lt, frame)
                 THEN << Stop(EntryExit(lt, frame.close, time)) >>
             ELSE << >>

\* the Neutral arm is missing
ExitOrders_NoNeutral(live, trend, frame) ==
    IF live = None THEN << >>
    ELSE LET lt == live[1]
             time == frame.close_time
         IN  IF StopTriggered(lt, frame)
                 THEN << Stop(EntryExit(lt, frame.close, time)) >>
             ELSE IF trend = "Bullish" /\ lt.direction = "Sell"
                 THEN << Close(EntryExit(lt, frame.close, time)) >>
             ELSE IF trend = "Bearish" /\ lt.direction = "Buy"
                 THEN << Close(EntryExit(lt, frame.close, time)) >>
             ELSE << >>

\* "Handle exits first": the match on the trend, its arms tried in order
ExitOrders(live, trend, frame) ==
    IF live = None THEN << >>
    ELSE LET lt == live[1]
             time == frame.close_time
         IN  IF StopTriggered(lt, frame)
                 THEN << Stop(EntryExit(lt, frame.close, time)) >>
             ELSE IF trend = "Neutral"
                 THEN << Close(EntryExit(lt, frame.close, time)) >>
             ELSE IF trend = "Bullish" /\ lt.direction = "Sell"
                 THEN << Close(EntryExit(lt, frame.close, time)) >>
             ELSE IF trend = "Bearish" /\ lt.direction = "Buy"
                 THEN << Close(EntryExit(lt, frame.close, time)) >>
             ELSE << >>

\* an entry is requested only while no position is live
EntryRequested_FlatOnly(live, exits, trend) ==
    /\ live = None
    /\ trend \in {"Bullish", "Bearish"}

\* an entry is requested on every directional trend
EntryRequested_Always(live, exits, trend) ==
    trend \in {"Bullish", "Bearish"}

\* the condition under which the risk strategy is asked for an entry
EntryRequested(live, exits, trend) ==
    /\ live = None \/ Len(exits) > 0
    /\ trend \in {"Bullish", "Bearish"}

\* the Open is put in front of the exit
UpdatePriceReturn_OpenFirst(live, trend, stopAnswer, history, bal) ==
    LET frame == history[1]
        exits == ExitOrders(live, trend, frame)
    IN  IF EntryRequested(live, exits, trend)
        THEN LET risk == MulFraction(bal, RiskPerTradeNum, RiskPerTradeDen)
                 dir == TrendDirection(trend)[1]
                 e == RiskEntry(stopAnswer, dir, history, risk)
             IN  IF "panic" \in DOMAIN e THEN [kind |-> "panic"]
                 ELSE IF "ok" \in DOMAIN e
                     THEN [kind |-> "orders",
                           orders |-> << Open(e.ok) >> \o exits]
                 ELSE [kind |-> "orders", orders |-> exits]
        ELSE [kind |-> "orders", orders |-> exits]

\* the error of the risk strategy is handed to the caller
UpdatePriceReturn_Propagate(live, trend, stopAnswer, history, bal) ==
    LET frame == history[1]
        exits == ExitOrders(live, trend, frame)
    IN  IF EntryRequested(live, exits, trend)
        THEN LET risk == MulFraction(bal, RiskPerTradeNum, RiskPerTradeDen)
                 dir == TrendDirection(trend)[1]
                 e == RiskEntry(stopAnswer, dir, history, risk)
             IN  IF "panic" \in DOMAIN e THEN [kind |-> "panic"]
                 ELSE IF "ok" \in DOMAIN e
                     THEN [kind |-> "orders",
                           orders |-> Append(exits, Open(e.ok))]
                 ELSE [kind |-> "Err", err |-> e.err]
        ELSE [kind |-> "orders", orders |-> exits]

\* an entry is only taken from the risk strategy on the first frame of the
\* history
UpdatePriceReturn_FirstFrameOnly(live, trend, stopAnswer, history, bal) ==
    LET frame == history[1]
        exits == ExitOrders(live, trend, frame)
    IN  IF EntryRequested(live, exits, trend) /\ Len(history) = 1
        THEN LET risk == MulFraction(bal, RiskPerTradeNum, RiskPerTradeDen)
                 dir == TrendDirection(trend)[1]
                 e == RiskEntry(stopAnswer, dir, history, risk)
             IN  IF "panic" \in DOMAIN e THEN [kind |-> "panic"]
                 ELSE IF "ok" \in DOMAIN e
                     THEN [kind |-> "orders",
                           orders |-> Append(exits, Open(e.ok))]
                 ELSE [kind |-> "orders", orders |-> exits]
        ELSE [kind |-> "orders", orders |-> exits]

\* the risk is taken from the balance as it will be once the exit is booked
UpdatePriceReturn_SizedAfterExit(live, trend, stopAnswer, history, bal) ==
    LET frame == history[1]
        exits == ExitOrders(live, trend, frame)
        closed == IF exits = << >> THEN None
                  ELSE TradeClosed(live[1], exits[1].exit)
        after == IF closed = None THEN bal ELSE bal + closed[1].profit
    IN  IF EntryRequested(live, exits, trend)
        THEN LET risk == MulFraction(after, RiskPerTradeNum, RiskPerTradeDen)
                 dir == TrendDirection(trend)[1]
                 e == RiskEntry(stopAnswer, dir, history, risk)
             IN  IF "panic" \in DOMAIN e THEN [kind |-> "panic"]
                 ELSE IF "ok" \in DOMAIN e
                     THEN [kind |-> "orders",
                           orders |-> Append(exits, Open(e.ok))]
                 ELSE [kind |-> "orders", orders |-> exits]
        ELSE [kind |-> "orders", orders |-> exits]

\* the whole body after push_front: the orders returned, or a panic
UpdatePriceReturn(live, trend, stopAnswer, history, bal) ==
    LET frame == history[1]
        exits == ExitOrders(live, trend, frame)
    IN  IF EntryRequested(live, exits, trend)
        THEN LET risk == MulFraction(bal, RiskPerTradeNum, RiskPerTradeDen)
                 dir == TrendDirection(trend)[1]
                 e == RiskEntry(stopAnswer, dir, history, risk)
             IN  IF "panic" \in DOMAIN e THEN [kind |-> "panic"]
                 ELSE IF "ok" \in DOMAIN e
                     THEN [kind |-> "orders",
                           orders |-> Append(exits, Open(e.ok))]
                 ELSE [kind |-> "orders", orders |-> exits]
        ELSE [kind |-> "orders", orders |-> exits]

----------------------------------------------------------------------------
(* Account::log_order *)

Err(e, id) == [kind |-> "Err", err |-> e, id |-> id]
Panic == [kind |-> "panic"]

\* the account fields a rejected or aborted log_order leaves behind
Untouched(live, closed, bal) ==
    [balance |-> bal, live_trade |-> live, closed_trades |-> closed]

\* the entry is accepted and not kept
LogOpenFree_NotKept(order, live, closed, bal) ==
    [balance |-> bal, live_trade |-> None,
     closed_trades |-> closed, ret |-> Ok]

\* (Order::Open(entry), None)
LogOpenFree(order, live, closed, bal) ==
    [balance |-> bal, live_trade |-> Some(order.entry),
     closed_trades |-> closed, ret |-> Ok]

\* the error carries the position id of the rejected Open
LogOpenLive_OrderId(order, live, closed, bal) ==
    Untouched(live, closed, bal)
        @@ [ret |-> Err("DuplicateEntry", order.entry.position_id)]

\* a second Open replaces the live position
LogOpenLive_Replace(order, live, closed, bal) ==
    [balance |-> bal, live_trade |-> Some(order.entry),
     closed_trades |-> closed, ret |-> Ok]

\* (Order::Open(_), Some(entry))
LogOpenLive(order, live, closed, bal) ==
    Untouched(live, closed, bal)
        @@ [ret |-> Err("DuplicateEntry", live[1].position_id)]

\* the ledger is not searched for the exit's position id
LogExitFree_NoLookup(order, live, closed, bal) ==
    Untouched(live, closed, bal)
        @@ [ret |-> Err("NoMatchingEntry", order.exit.position_id)]

\* (Order::Close(exit) | Order::Stop(exit), None)
LogExitFree(order, live, closed, bal) ==
    IF \E i \in 1..Len(closed) : closed[i].id = order.exit.position_id
    THEN Untouched(live, closed, bal)
             @@ [ret |-> Err("PositionAlreadyClosed", order.exit.position_id)]
    ELSE Untouched(live, closed, bal)
             @@ [ret |-> Err("NoMatchingEntry", order.exit.position_id)]

\* the position stays live after it is closed
LogExitLive_KeepLive(order, live, closed, bal) ==
    LET trade == TradeClosed(live[1], order.exit)
    IN  IF trade = None
        THEN Untouched(live, closed, bal) @@ [ret |-> Panic]
        ELSE [balance |-> bal + trade[1].profit,
              live_trade |-> live,
              closed_trades |-> Append(closed, trade[1]),
              ret |-> Ok]

\* the profit of the trade is not added to the balance
LogExitLive_NoCredit(order, live, closed, bal) ==
    LET trade == TradeClosed(live[1], order.exit)
    IN  IF trade = None
        THEN Untouched(live, closed, bal) @@ [ret |-> Panic]
        ELSE [balance |-> bal,
              live_trade |-> None,
              closed_trades |-> Append(closed, trade[1]),
              ret |-> Ok]

\* (Order::Close(exit) | Order::Stop(exit), Some(entry))
LogExitLive(order, live, closed, bal) ==
    LET trade == TradeClosed(live[1], order.exit)
    IN  IF trade = None
        THEN Untouched(live, closed, bal) @@ [ret |-> Panic]
        ELSE [balance |-> bal + trade[1].profit,
              live_trade |-> None,
              closed_trades |-> Append(closed, trade[1]),
              ret |-> Ok]

\* the match on (order, &self.live_trade): the result and the fields after
LogOrderStep(order, live, closed, bal) ==
    IF order.kind = "Open"
    THEN IF live = None THEN LogOpenFree(order, live, closed, bal)
         ELSE LogOpenLive(order, live, closed, bal)
    ELSE IF live = None THEN LogExitFree(order, live, closed, bal)
         ELSE LogExitLive(order, live, closed, bal)

----------------------------------------------------------------------------
(* Account::trade_log *)

\* the trade is put in front of the first trade entered after it: one step
\* of a stable sort by entry_time
InsertByEntryTime(sorted, trade) ==
    LET before == SelectSeq(sorted, LAMBDA t : t.entry_time <= trade.entry_time)
        after == SelectSeq(sorted, LAMBDA t : t.entry_time > trade.entry_time)
    IN  before \o << trade >> \o after

\* trades.sort_by(|a, b| a.entry_time.cmp(&b.entry_time))
RECURSIVE SortByEntryTime(_)
SortByEntryTime(trades) ==
    IF trades = << >> THEN << >>
    ELSE InsertByEntryTime(SortByEntryTime(SubSeq(trades, 1, Len(trades) - 1)),
                           trades[Len(trades)])

\* the trades are returned in ledger order, the live position last
TradeLog_Unsorted(closed, live, latest_price) ==
    IF live = None THEN [kind |-> "trades", trades |-> closed]
    ELSE LET open == TradeOpen(live[1], latest_price)
         IN  IF open = None THEN Panic
             ELSE [kind |-> "trades", trades |-> closed \o open]

\* the closed trades chained with the live position as an open trade, then
\* sorted; a panic when Trade::open panics
TradeLog(closed, live, latest_price) ==
    IF live = None THEN [kind |-> "trades", trades |-> SortByEntryTime(closed)]
    ELSE LET open == TradeOpen(live[1], latest_price)
         IN  IF open = None THEN Panic
             ELSE [kind |-> "trades",
                   trades |-> SortByEntryTime(closed \o open)]

----------------------------------------------------------------------------
(* Backtest::place_order *)

\* the order with its position id replaced
Stamped(order, id) ==
    IF order.kind = "Open"
    THEN [order EXCEPT !.entry.position_id = ToString(id)]
    ELSE [order EXCEPT !.exit.position_id = ToString(id)]

\* the trace entries: Ok(order) and Err(text), a text being the sequence of
\* its parts
Placed(order) == [ok |-> order]
Rejected(entry, e) ==
    [err |-> << "Market rejected entry: ", entry, ", ", e >>]
Refused(e) ==
    [err |-> (CASE e.err = "DuplicateEntry" -> << "Duplicate position ", e.id >>
               [] e.err = "NoMatchingEntry" -> << "No matching entry ", e.id >>
               [] e.err = "PositionAlreadyClosed" ->
                      << "Position ", e.id, " alerady closed" >>)
             \o << "\n" >>]

\* what place_order leaves behind when the account refuses or accepts the
\* stamped order o: the event, the account fields, and the counter, which
\* advances by step when the order is accepted
Logged(o, id, step, live, closed, bal) ==
    LET r == LogOrderStep(o, live, closed, bal)
        fields == [balance |-> r.balance, live_trade |-> r.live_trade,
                   closed_trades |-> r.closed_trades, logged |-> TRUE]
    IN  IF r.ret = Panic THEN fields @@ [p_id |-> id, event |-> Panic]
        ELSE IF r.ret.kind = "Err"
            THEN fields @@ [p_id |-> id, event |-> Refused(r.ret)]
        ELSE fields @@ [p_id |-> id + step, event |-> Placed(o)]

\* an accepted Open advances the counter
PlaceOpen_Advance(market, order, id, live, closed, bal) ==
    LET v == ValidateEntry(market, order.entry, bal)
    IN  IF v # Ok
        THEN Untouched(live, closed, bal)
                 @@ [p_id |-> id, logged |-> FALSE,
                     event |-> Rejected(order.entry, v.err)]
        ELSE Logged(Stamped(order, id), id, 1, live, closed, bal)

\* an Open the market rejects is logged all the same
PlaceOpen_LogAnyway(market, order, id, live, closed, bal) ==
    LET v == ValidateEntry(market, order.entry, bal)
    IN  IF v # Ok
        THEN [Logged(Stamped(order, id), id, 0, live, closed, bal)
                 EXCEPT !.event = Rejected(order.entry, v.err)]
        ELSE Logged(Stamped(order, id), id, 0, live, closed, bal)

\* the Order::Open arm
PlaceOpen(market, order, id, live, closed, bal) ==
    LET v == ValidateEntry(market, order.entry, bal)
    IN  IF v # Ok
        THEN Untouched(live, closed, bal)
                 @@ [p_id |-> id, logged |-> FALSE,
                     event |-> Rejected(order.entry, v.err)]
        ELSE Logged(Stamped(order, id), id, 0, live, closed, bal)

\* an accepted Close or Stop leaves the counter as it is
PlaceExit_NoAdvance(order, id, live, closed, bal) ==
    Logged(Stamped(order, id), id, 0, live, closed, bal)

\* the Order::Close and Order::Stop arms
PlaceExit(order, id, live, closed, bal) ==
    Logged(Stamped(order, id), id, 1, live, closed, bal)

PlaceOrderStep(market, order, id, live, closed, bal) ==
    IF order.kind = "Open"
    THEN PlaceOpen(market, order, id, live, closed, bal)
    ELSE PlaceExit(order, id, live, closed, bal)

\* only the orders that went through are traced
TracePush_OkOnly(events, event) ==
    IF "err" \in DOMAIN event THEN events ELSE Append(events, event)

\* self.trace.push(event)
TracePush(events, event) == Append(events, event)

----------------------------------------------------------------------------
(* Inputs *)

\* candles closing at time t: low <= close <= high; the open quote, which
\* nothing in the core reads, is the low
FrameInputs(t) ==
    { Frame(Price(l, l + Spread), Price(c, c + Spread), Price(h, h + Spread),
            Price(l, l + Spread), t) :
        <<l, c, h>> \in { x \in Bids \X Bids \X Bids :
                             x[1] <= x[2] /\ x[2] <= x[3] } }

EntrySizes == {Scale}

\* a caller's entries: a Buy is entered at an ask and stopped at a bid, a
\* Sell is entered at a bid and stopped at an ask; the stop lies on the entry
\* price (a position without risk) or one level on its losing side
EntryInputsAt(times) ==
    { Entry(id, "Buy", p, s, z, t) :
        id \in PositionIds,
        <<p, s>> \in { x \in Asks \X Bids : x[1] - x[2] \in StopDistances },
        z \in EntrySizes, t \in times }
    \cup
    { Entry(id, "Sell", p, s, z, t) :
        id \in PositionIds,
        <<p, s>> \in { x \in Bids \X Asks : x[2] - x[1] \in StopDistances },
        z \in EntrySizes, t \in times }

EntryInputs == EntryInputsAt(OrderTimes)

ExitInputs ==
    { Exit(id, p, t) : id \in PositionIds, p \in Bids, t \in OrderTimes }

OrderInputs ==
    {Open(e) : e \in EntryInputs}
        \cup {Close(x) : x \in ExitInputs} \cup {Stop(x) : x \in ExitInputs}

----------------------------------------------------------------------------
(* The account as a state machine *)

Init ==
    /\ balance = OpeningBalanceUnits * Scale
    /\ price_history = << >>
    /\ closed_trades = << >>
    /\ live_trade = None
    /\ call = [op |-> "new"]
    /\ ret = [kind |-> "new"]
    /\ p_id = 0
    /\ trace = << >>
    /\ orders = << >>

\* a caller feeds the next frame, the limit-th at most
UpdatePriceUpTo(limit) ==
    \E frame \in FrameInputs(Len(price_history) + 1), trend \in Trends :
        LET asked == EntryRequested(live_trade,
                         ExitOrders(live_trade, trend, frame), trend)
        IN  \E stopAnswer \in IF asked THEN StopAnswers
                               ELSE {NotEnoughHistory} :
                /\ ret.kind # "panic"
                /\ Len(price_history) < limit
                /\ price_history' = PushFront(price_history, frame)
                /\ call' = [op |-> "update_price", frame |-> frame,
                            trend |-> trend,
                            stop |-> IF asked THEN Some(stopAnswer) ELSE None]
                /\ ret' = UpdatePriceReturn(live_trade, trend, stopAnswer,
                                            price_history', balance)
                /\ UNCHANGED << balance, closed_trades, live_trade >>
                /\ UNCHANGED backtest

UpdatePrice == UpdatePriceUpTo(MaxHistory)

\* a caller logs the order
LogOrderOf(order) ==
    LET r == LogOrderStep(order, live_trade, closed_trades, balance)
    IN  /\ ret.kind # "panic"
        /\ Len(r.closed_trades) <= MaxClosed
        /\ call' = [op |-> "log_order", kind |-> order.kind,
                    position_id |-> OrderId(order)]
        /\ ret' = r.ret
        /\ balance' = r.balance
        /\ live_trade' = r.live_trade
        /\ closed_trades' = r.closed_trades
        /\ UNCHANGED price_history
        /\ UNCHANGED backtest

LogOrder == \E order \in OrderInputs : LogOrderOf(order)

Next == UpdatePrice \/ LogOrder

Spec == Init /\ [][Next]_vars

----------------------------------------------------------------------------
(* The account under a price feed: frames arrive while a caller opens      *)
(* positions                                                               *)

FeedPrice == UpdatePriceUpTo(MaxFeed)

OpenPosition == \E order \in {Open(e) : e \in EntryInputs} : LogOrderOf(order)

NextFeed == FeedPrice \/ OpenPosition

SpecFeed == Init /\ [][NextFeed]_vars

----------------------------------------------------------------------------
(* Properties of log_order *)

IsExit(order) == order.kind \in {"Close", "Stop"}

\* the step is a log_order call with an Open / with a Close or Stop
LogsOpen == call'.op = "log_order" /\ call'.kind = "Open"
LogsExit == call'.op = "log_order" /\ call'.kind \in {"Close", "Stop"}

AccountUnchanged ==
    /\ live_trade' = live_trade
    /\ closed_trades' = closed_trades
    /\ balance' = balance

\* C1: at most one position is live, and log_order(Open) while a position
\* is live returns DuplicateEntry and leaves the live position, the ledger
\* and the balance as they were.
C1_DuplicateEntry ==
    [][ /\ Len(live_trade') <= 1
        /\ (LogsOpen /\ live_trade # None) =>
               /\ ret'.kind = "Err" /\ ret'.err = "DuplicateEntry"
               /\ AccountUnchanged ]_vars

\* an Open with another id was refused while a position was live
C1_Witness ==
    /\ call.op = "log_order" /\ call.kind = "Open"
    /\ live_trade # None /\ live_trade[1].position_id # call.position_id
    /\ ret.kind = "Err" /\ ret.err = "DuplicateEntry"

\* C2: log_order(Close) or log_order(Stop) while a position is live always
\* succeeds, whatever position id the exit carries: afterwards no position
\* is live, the ledger has one more trade, appended last and built from
\* the live entry and the exit, and the balance has grown by its profit.
C2_ExitAlwaysCloses ==
    [][ (LogsExit /\ live_trade # None) =>
           LET entry == live_trade[1]
               n == Len(closed_trades)
               trade == closed_trades'[n + 1]
               diff == IF entry.direction = "Buy"
                       THEN trade.exit_price[1] - entry.price
                       ELSE entry.price - trade.exit_price[1]
           IN  /\ ret' = Ok
               /\ live_trade' = None
               /\ Len(closed_trades') = n + 1
               /\ SubSeq(closed_trades', 1, n) = closed_trades
               /\ trade.id = entry.position_id
               /\ trade.entry_price = entry.price
               /\ trade.profit = entry.size * diff
               /\ balance' = balance + trade.profit ]_vars

\* C3: log_order(Close) or log_order(Stop) while no position is live
\* returns PositionAlreadyClosed when the ledger holds a trade with the
\* exit's position id and NoMatchingEntry otherwise, and leaves the live
\* position, the ledger and the balance as they were.
C3_ExitWithoutPosition ==
    [][ (LogsExit /\ live_trade = None) =>
           LET id == call'.position_id
               known == \E i \in DOMAIN closed_trades :
                            closed_trades[i].id = id
           IN  /\ ret'.kind = "Err"
               /\ ret'.err = IF known THEN "PositionAlreadyClosed"
                              ELSE "NoMatchingEntry"
               /\ AccountUnchanged ]_vars

\* an exit for an id of the ledger was refused as already closed
C3_Witness ==
    /\ call.op = "log_order" /\ call.kind \in {"Close", "Stop"}
    /\ live_trade = None
    /\ ret.kind = "Err" /\ ret.err = "PositionAlreadyClosed"
    /\ \E i \in DOMAIN closed_trades :
           closed_trades[i].id = call.position_id

----------------------------------------------------------------------------
(* Properties of update_price, stated on the states in which update_price  *)
(* has just returned: live_trade is the position that was live during the  *)
(* call, call holds the frame, the trend and the answer of the risk        *)
(* strategy's stop(), ret.orders the orders returned.                      *)

Returned == call.op = "update_price" /\ ret.kind = "orders"

Held == live_trade # None
Lt == live_trade[1]

\* the frame's extreme lies strictly beyond the live position's stop
StopCrossed ==
    /\ Held
    /\ \/ Lt.direction = "Buy" /\ call.frame.low.bid < Lt.stop
       \/ Lt.direction = "Sell" /\ call.frame.high.ask > Lt.stop

\* the frame's extreme lies on the live position's stop
StopTouched ==
    /\ Held
    /\ \/ Lt.direction = "Buy" /\ call.frame.low.bid = Lt.stop
       \/ Lt.direction = "Sell" /\ call.frame.high.ask = Lt.stop

Opposes == \/ call.trend = "Bullish" /\ Lt.direction = "Sell"
           \/ call.trend = "Bearish" /\ Lt.direction = "Buy"

Agrees == \/ call.trend = "Bullish" /\ Lt.direction = "Buy"
          \/ call.trend = "Bearish" /\ Lt.direction = "Sell"

\* the risk strategy was asked and answered with a stop level / an error
StopGiven == call.stop # None /\ "ok" \in DOMAIN call.stop[1]
StopRefused == call.stop = Some(NotEnoughHistory)

ExitsReturned == SelectSeq(ret.orders, IsExit)
StopsReturned == SelectSeq(ret.orders, LAMBDA o : o.kind = "Stop")
OpensReturned == SelectSeq(ret.orders, LAMBDA o : o.kind = "Open")

\* the price at which the live position is filled on the frame's close
ClosePrice ==
    IF Lt.direction = "Buy" THEN call.frame.close.bid
    ELSE call.frame.close.ask

\* C4: when the frame crosses the live position's stop, exactly one exit is
\* returned and it is a Stop, whatever the trend, filled at the frame's
\* close.
C4_StopPrecedence ==
    (Returned /\ StopCrossed) =>
        /\ Len(ExitsReturned) = 1
        /\ ret.orders[1].kind = "Stop"
        /\ ret.orders[1].exit.price = ClosePrice

\* a stop fired under a trend opposing the position, away from the stop level
C4_Witness ==
    /\ Returned /\ StopCrossed /\ Opposes
    /\ ret.orders[1].kind = "Stop"
    /\ ret.orders[1].exit.price # Lt.stop

\* C5 as stated: a Stop is returned whenever the frame's low is at most the
\* stop of a live Buy, or its high at least the stop of a live Sell.
C5_StopWhenTouched ==
    (Returned /\ (StopCrossed \/ StopTouched)) => Len(StopsReturned) = 1

\* C5 amended: a Stop is returned exactly when the frame's low bid is
\* strictly below the stop of a live Buy, or its high ask strictly above the
\* stop of a live Sell; an extreme equal to the stop fires no Stop.
C5_StopWhenCrossed ==
    Returned =>
        /\ StopCrossed => Len(StopsReturned) = 1
        /\ ~StopCrossed => Len(StopsReturned) = 0

\* the low of the frame touched the stop of a live Buy and no Stop came
C5_Witness ==
    /\ Returned /\ StopTouched /\ ~StopCrossed
    /\ Lt.direction = "Buy"
    /\ Len(StopsReturned) = 0

\* C6: with a live position, no stop crossed, an opposing trend and an entry
\* from the risk strategy, exactly [Close, Open] is returned, the Close for
\* the live position and the Open in the direction of the trend.
C6_Reversal ==
    (Returned /\ Held /\ ~StopCrossed /\ Opposes /\ StopGiven) =>
        /\ Len(ret.orders) = 2
        /\ ret.orders[1].kind = "Close"
        /\ ret.orders[1].exit.position_id = Lt.position_id
        /\ ret.orders[2].kind = "Open"
        /\ ret.orders[2].entry.direction =
               (IF call.trend = "Bullish" THEN "Buy" ELSE "Sell")
        /\ ret.orders[2].entry.direction # Lt.direction

\* a long position was reversed
C6_Witness ==
    /\ Returned /\ Held /\ ~StopCrossed /\ StopGiven
    /\ Lt.direction = "Buy" /\ call.trend = "Bearish"
    /\ Len(ret.orders) = 2

\* C7: with a live position, no stop crossed and a Neutral trend, exactly
\* one order is returned, a Close for the live position.
C7_NeutralCloses ==
    (Returned /\ Held /\ ~StopCrossed /\ call.trend = "Neutral") =>
        /\ Len(ret.orders) = 1
        /\ ret.orders[1].kind = "Close"
        /\ ret.orders[1].exit.position_id = Lt.position_id

\* a position was closed on a Neutral trend
C7_Witness ==
    /\ Returned /\ Held /\ ~StopCrossed /\ call.trend = "Neutral"
    /\ Len(ret.orders) = 1

\* C8: with no live position, a Bullish trend returns exactly [Open] with a
\* Buy and a Bearish trend exactly [Open] with a Sell, the entry of the risk
\* strategy for the budget balance * risk_per_trade, when the risk strategy
\* gives one; a Neutral trend returns nothing.
C8_OpensOnTrend ==
    (Returned /\ ~Held) =>
        /\ call.trend = "Neutral" => ret.orders = << >>
        /\ (call.trend # "Neutral" /\ StopGiven) =>
               LET dir == IF call.trend = "Bullish" THEN "Buy" ELSE "Sell"
                   price == IF dir = "Buy" THEN call.frame.close.ask
                            ELSE call.frame.close.bid
                   stop == call.stop[1].ok
                   budget == RoundDiv(balance * RiskPerTradeNum,
                                      RiskPerTradeDen)
               IN  /\ price # stop
                   /\ ret.orders =
                       << Open(Entry("", dir, price, stop,
                                     RoundDiv(budget, Abs(price - stop)),
                                     call.frame.close_time)) >>

\* a Buy was proposed to an account without a position
C8_Witness ==
    /\ Returned /\ ~Held /\ call.trend = "Bullish" /\ StopGiven
    /\ Len(ret.orders) = 1
    /\ ret.orders[1].entry.direction = "Buy"

\* C9: with a live position, no stop crossed and a trend agreeing with the
\* held direction, no order is returned.
C9_Stay ==
    (Returned /\ Held /\ ~StopCrossed /\ Agrees) => ret.orders = << >>

\* a position was kept
C9_Witness ==
    /\ Returned /\ Held /\ ~StopCrossed /\ Agrees
    /\ ret.orders = << >>

\* C10: when the risk strategy answers NotEnoughHistory, update_price
\* returns its orders as usual, with no Open among them and with the exit
\* of the live position, if there is one.
C10_NotEnoughHistory ==
    (call.op = "update_price" /\ StopRefused) =>
        /\ ret.kind = "orders"
        /\ Len(OpensReturned) = 0
        /\ Held => /\ Len(ret.orders) = 1
                   /\ IsExit(ret.orders[1])
                   /\ ret.orders[1].exit.position_id = Lt.position_id
        /\ ~Held => ret.orders = << >>

\* an exit was returned although the risk strategy had no entry to give
C10_Witness ==
    /\ Returned /\ StopRefused /\ Held
    /\ Len(ret.orders) = 1

----------------------------------------------------------------------------
(* The account as a ledger: a caller logs orders with timestamps of its    *)
(* own and reads the trade log                                             *)

LedgerOrderInputs ==
    {Open(e) : e \in EntryInputsAt(LedgerTimes)}
        \cup {Close(x) : x \in ExitInputs} \cup {Stop(x) : x \in ExitInputs}

LogLedgerOrder == \E order \in LedgerOrderInputs : LogOrderOf(order)

ReadTradeLog ==
    \E bid \in Bids :
        LET latest_price == Price(bid, bid + Spread)
        IN  /\ ret.kind # "panic"
            /\ call' = [op |-> "trade_log", latest_price |-> latest_price]
            /\ ret' = TradeLog(closed_trades, live_trade, latest_price)
            /\ UNCHANGED << balance, price_history, closed_trades, live_trade >>
            /\ UNCHANGED backtest

NextLedger == LogLedgerOrder \/ ReadTradeLog

SpecLedger == Init /\ [][NextLedger]_vars

----------------------------------------------------------------------------
(* Backtest::run: one step per frame fed to the account and one per order  *)
(* placed.  The market of the run takes deals of 6 per point and more, so  *)
(* that it rejects the entries the risk budget sizes over two points and   *)
(* accepts those sized over one.                                           *)

RunMarket == Market(1, 2, 6 * Scale, 1)

\* for price in prices { let orders = self.account.update_price(*price); ...
RunFrame ==
    \E frame \in FrameInputs(Len(price_history) + 1), trend \in Trends :
        LET asked == EntryRequested(live_trade,
                         ExitOrders(live_trade, trend, frame), trend)
        IN  \E stopAnswer \in IF asked THEN StopAnswers
                               ELSE {NotEnoughHistory} :
                /\ ret.kind # "panic"
                /\ orders = << >>
                /\ Len(price_history) < MaxRun
                /\ price_history' = PushFront(price_history, frame)
                /\ call' = [op |-> "update_price", frame |-> frame,
                            trend |-> trend,
                            stop |-> IF asked THEN Some(stopAnswer) ELSE None]
                /\ ret' = UpdatePriceReturn(live_trade, trend, stopAnswer,
                                            price_history', balance)
                /\ orders' = IF ret'.kind = "orders" THEN ret'.orders
                             ELSE << >>
                /\ UNCHANGED << balance, closed_trades, live_trade >>
                /\ UNCHANGED << p_id, trace >>

\* ... for order in orders { let event = self.place_order(&order);
\* self.trace.push(event); } }
PlaceOrderAt(market) ==
    /\ ret.kind # "panic"
    /\ orders # << >>
    /\ LET order == Head(orders)
           r == PlaceOrderStep(market, order, p_id, live_trade,
                               closed_trades, balance)
       IN  /\ call' = [op |-> "place_order", order |-> order,
                       logged |-> r.logged]
           /\ ret' = IF r.event = Panic THEN Panic
                     ELSE [kind |-> "event", event |-> r.event]
           /\ trace' = IF r.event = Panic THEN trace
                       ELSE TracePush(trace, r.event)
           /\ balance' = r.balance
           /\ live_trade' = r.live_trade
           /\ closed_trades' = r.closed_trades
           /\ p_id' = r.p_id
           /\ orders' = Tail(orders)
           /\ UNCHANGED price_history

PlaceOrder == PlaceOrderAt(RunMarket)

NextRun == RunFrame \/ PlaceOrder

SpecRun == Init /\ [][NextRun]_vars

----------------------------------------------------------------------------
(* Backtest::run on a market whose margin is the whole balance for an      *)
(* entry at 2 sized over a stop distance of one point, so that the balance *)
(* an entry is validated against decides                                   *)

MarginMarket == Market(50, 1, Scale, 1)

SpecMargin == Init /\ [][RunFrame \/ PlaceOrderAt(MarginMarket)]_vars

----------------------------------------------------------------------------
(* Backtest::run with the Donchian stop as the risk strategy, on a market  *)
(* without rules, over frames with bid <= ask and low <= close <= high     *)

\* frames of a spread of zero or one point
QuoteFrames(t) ==
    { Frame(Price(l, l + s), Price(c, c + s), Price(h, h + s),
            Price(l, l + s), t) :
        <<l, c, h, s>> \in { x \in Bids \X Bids \X Bids \X {0, Spread} :
                                x[1] <= x[2] /\ x[2] <= x[3] } }

\* update_price on the next frame, the risk strategy being the Donchian stop
RunDonchianFrame ==
    \E frame \in QuoteFrames(Len(price_history) + 1), trend \in Trends :
        LET asked == EntryRequested(live_trade,
                         ExitOrders(live_trade, trend, frame), trend)
            history == PushFront(price_history, frame)
            stopAnswer == IF asked
                          THEN DonchianStop(DONCHIAN_LENGTH,
                                   TrendDirection(trend)[1], history)
                          ELSE NotEnoughHistory
        IN  /\ ret.kind # "panic"
            /\ orders = << >>
            /\ Len(price_history) < MaxRun
            /\ price_history' = history
            /\ call' = [op |-> "update_price", frame |-> frame,
                        trend |-> trend,
                        stop |-> IF asked THEN Some(stopAnswer) ELSE None]
            /\ ret' = UpdatePriceReturn(live_trade, trend, stopAnswer,
                                        history, balance)
            /\ orders' = IF ret'.kind = "orders" THEN ret'.orders ELSE << >>
            /\ UNCHANGED << balance, closed_trades, live_trade >>
            /\ UNCHANGED << p_id, trace >>

SpecStops ==
    Init /\ [][RunDonchianFrame \/ PlaceOrderAt(Market(0, 1, 0, 0))]_vars

----------------------------------------------------------------------------
(* Market::validate_entry on its own: the market of the test fixture asked *)
(* about entries around its three limits                                   *)

\* margin 5%, deals of 0.50 per point and more, stops 12 points away and
\* more
FixtureMarket == Market(1, 20, Scale \div 2, 12)

\* entries a tick below, on and above the minimum deal size, 11 to 13 points
\* from their stop
MarketEntryInputs ==
    { Entry("", d, p, IF d = "Buy" THEN p - sd ELSE p + sd, z, 1) :
        d \in Directions, p \in {100, 200}, sd \in {11, 12, 13},
        z \in {Scale \div 2 - 1, Scale \div 2, 2 * Scale} }

\* balances a tick below and on the margin of the smallest deal, and two
\* larger ones
MarketBalanceInputs ==
    {5 * (Scale \div 2) - 1, 5 * (Scale \div 2), 5 * Scale, 20 * Scale}

AskMarket ==
    \E order \in MarketEntryInputs, bal \in MarketBalanceInputs :
        /\ call' = [op |-> "validate_entry", market |-> FixtureMarket,
                    order |-> order, balance |-> bal]
        /\ ret' = ValidateEntry(FixtureMarket, order, bal)
        /\ UNCHANGED << balance, price_history, closed_trades, live_trade >>
        /\ UNCHANGED backtest

NextMarket == AskMarket

SpecMarket == Init /\ [][NextMarket]_vars

----------------------------------------------------------------------------
(* Trade::closed on its own: entries of either direction, with a stop on   *)
(* either side of the price or on it, closed below, on and above the entry *)
(* price                                                                   *)

TradeEntryInputs ==
    { Entry("1", d, p, s, z, 1) :
        d \in Directions, p \in {10, 11}, s \in {9, 10, 12},
        z \in {0, Scale \div 3, Scale} }

TradeExitInputs == { Exit("1", p, 2) : p \in {8, 10, 11, 13} }

CloseTrade ==
    \E entry \in TradeEntryInputs, exit \in TradeExitInputs :
        LET trade == TradeClosed(entry, exit)
        IN  /\ call' = [op |-> "closed", entry |-> entry, exit |-> exit]
            /\ ret' = IF trade = None THEN Panic
                      ELSE [kind |-> "trade", trade |-> trade[1]]
            /\ UNCHANGED << balance, price_history, closed_trades, live_trade >>
            /\ UNCHANGED backtest

NextTrade == CloseTrade

SpecTrade == Init /\ [][NextTrade]_vars

----------------------------------------------------------------------------
(* RiskStrategy::entry on its own: a risk strategy with any stop() asked   *)
(* for an entry over histories of one and two frames                       *)

\* a frame that closes at the bid, two points wide, and ranges five points
\* either way
SizingFrame(bid, t) ==
    Frame(Price(bid, bid + 2), Price(bid, bid + 2),
          Price(bid + 5, bid + 7), Price(bid - 5, bid - 3), t)

\* histories, newest first
SizingHistories ==
    { << SizingFrame(b, 1) >> : b \in {10, 20} }
        \cup { << SizingFrame(b, 2), SizingFrame(a, 1) >> : a, b \in {10, 20} }

\* the answers of stop(): on the entry prices, and one to thirteen points
\* from them
SizingStopAnswers ==
    {NotEnoughHistory} \cup {OkStop(x) : x \in {9, 10, 12, 15, 23}}

\* risk budgets: 10, 10.1 and 0.000001
SizingRisks == {10 * Scale, 10 * Scale + Scale \div 10, 1}

AskEntry ==
    \E stopAnswer \in SizingStopAnswers, direction \in Directions,
       history \in SizingHistories, risk \in SizingRisks :
        LET e == RiskEntry(stopAnswer, direction, history, risk)
        IN  /\ call' = [op |-> "entry", direction |-> direction,
                        history |-> history, risk |-> risk,
                        stop |-> stopAnswer]
            /\ ret' = IF "panic" \in DOMAIN e THEN Panic
                      ELSE IF "ok" \in DOMAIN e
                          THEN [kind |-> "entry", entry |-> e.ok]
                      ELSE [kind |-> "Err", err |-> e.err]
            /\ UNCHANGED << balance, price_history, closed_trades, live_trade >>
            /\ UNCHANGED backtest

NextEntry == AskEntry

SpecEntry == Init /\ [][NextEntry]_vars

----------------------------------------------------------------------------
(* Donchian::stop on its own: channels of one frame and more over          *)
(* histories of no frame and more                                          *)

\* frames by their low bid and high ask; they open and close on the low
ChannelFrames ==
    { Frame(Price(l, l + Spread), Price(l, l + Spread),
            Price(h - Spread, h), Price(l, l + Spread), 1) :
        l \in {1, 2}, h \in {3, 4} }

RECURSIVE HistoriesOf(_)
HistoriesOf(n) ==
    IF n = 0 THEN { << >> }
    ELSE { << f >> \o h : f \in ChannelFrames, h \in HistoriesOf(n - 1) }

ChannelHistories == UNION { HistoriesOf(n) : n \in 0..MaxChannel }

\* Donchian::channel takes idx % channel_length: a channel has a frame at
\* least
ChannelLengths == 1..MaxChannel

AskDonchian ==
    \E n \in ChannelLengths, direction \in Directions,
       history \in ChannelHistories :
        /\ call' = [op |-> "donchian_stop", channel_length |-> n,
                    direction |-> direction, history |-> history]
        /\ ret' = [kind |-> "stop",
                   answer |-> DonchianStop(n, direction, history)]
        /\ UNCHANGED << balance, price_history, closed_trades, live_trade >>
        /\ UNCHANGED backtest

NextDonchian == AskDonchian

SpecDonchian == Init /\ [][NextDonchian]_vars

----------------------------------------------------------------------------
(* MACD::sentiment on its own: every sentiment stepped on MACD values      *)
(* below, on and above the limits                                          *)

MacdValues == -4..4
EntryLimits == {-1, 2}
ExitLimits == {0, 1, 3}

StepSentiment ==
    \E sentiment \in Sentiments, macd \in MacdValues,
       entry_lim \in EntryLimits, exit_lim \in ExitLimits :
        /\ call' = [op |-> "sentiment", sentiment |-> sentiment,
                    macd |-> macd, entry_lim |-> entry_lim,
                    exit_lim |-> exit_lim]
        /\ ret' = [kind |-> "sentiment",
                   sentiment |-> MacdSentiment(sentiment, macd, entry_lim,
                                               exit_lim)]
        /\ UNCHANGED << balance, price_history, closed_trades, live_trade >>
        /\ UNCHANGED backtest

NextSentiment == StepSentiment

SpecSentiment == Init /\ [][NextSentiment]_vars

----------------------------------------------------------------------------
(* The EMA on its own: every input of whole samples, averaged over each    *)
(* window                                                                  *)

\* window lengths whose alpha is a decimal of one place: 2, 1, 0.5 and 0.4;
\* over them the sums and products of EMA::next are exact Decimals
EmaWindows == {0, 1, 3, 4}

EmaSamples == {0, 3, 5}

RECURSIVE SamplesOf(_)
SamplesOf(n) ==
    IF n = 0 THEN { << >> }
    ELSE { Append(input, Dec(x, 1)) :
               input \in SamplesOf(n - 1), x \in EmaSamples }

EmaInputs == UNION { SamplesOf(n) : n \in 0..MaxSamples }

Average ==
    \E input \in EmaInputs :
        /\ call' = [op |-> "ema", input |-> input]
        /\ ret' = [kind |-> "ema",
                   ema |-> [length \in EmaWindows |-> Ema(input, length)]]
        /\ UNCHANGED << balance, price_history, closed_trades, live_trade >>
        /\ UNCHANGED backtest

NextEma == Average

SpecEma == Init /\ [][NextEma]_vars

----------------------------------------------------------------------------
(* MACD: the indicator over a list of frames and the trading signal *)

\* Price::mid_price
MidPrice(price) == Dec(price.bid + price.ask, 2)

\* MACD::samples_needed(length, EMA_ERROR): ln(error) / -alpha, rounded,
\* with alpha = 2 / (length + 1)
SamplesNeeded(length) == RoundDiv(NegLnEmaErrorMicros * (length + 1),
                                  2 * Pow10(6))

MACD(short, long, signal, entry_lim, exit_lim) ==
    [short |-> short, long |-> long, signal |-> signal,
     entry_lim |-> entry_lim, exit_lim |-> exit_lim]

\* [short, long, signal].iter().max()
MacdLength(macd) == Max(Max(macd.short, macd.long), macd.signal)

\* a value returned, as opposed to Panic
Returns(value) == [kind |-> "Ok", value |-> value]

Enter(direction) == [kind |-> "Enter", direction |-> direction]
ExitSignal(direction) == [kind |-> "Exit", direction |-> direction]

\* the match has no arm for a Bearish sentiment that turns Neutral
MacdSignal_NoSellExit(last_sentiment, current_sentiment) ==
    IF last_sentiment = current_sentiment THEN Returns(None)
    ELSE IF last_sentiment = "Bullish" /\ current_sentiment = "Neutral"
        THEN Returns(Some(ExitSignal("Buy")))
    ELSE IF current_sentiment = "Bullish" THEN Returns(Some(Enter("Buy")))
    ELSE IF current_sentiment = "Bearish" THEN Returns(Some(Enter("Sell")))
    ELSE Panic

\* MACD::signal: the signal of a change of sentiment; the last arm of its
\* match panics
MacdSignal(last_sentiment, current_sentiment) ==
    IF last_sentiment = current_sentiment THEN Returns(None)
    ELSE IF last_sentiment = "Bullish" /\ current_sentiment = "Neutral"
        THEN Returns(Some(ExitSignal("Buy")))
    ELSE IF last_sentiment = "Bearish" /\ current_sentiment = "Neutral"
        THEN Returns(Some(ExitSignal("Sell")))
    ELSE IF current_sentiment = "Bullish" THEN Returns(Some(Enter("Buy")))
    ELSE IF current_sentiment = "Bearish" THEN Returns(Some(Enter("Sell")))
    ELSE Panic

\* the zipped iterators of MACD::macd: the EMAs of the close mid prices,
\* their difference, its EMA and the difference to it
MacdIndicators(history, macd) ==
    LET points == [i \in DOMAIN history |-> MidPrice(history[i].close)]
        short_ema == Ema(points, macd.short)
        long_ema == Ema(points, macd.long)
        line == [i \in DOMAIN history |-> DecSub(short_ema[i], long_ema[i])]
        macd_sig == Ema(line, macd.signal)
    IN  [i \in DOMAIN history |->
            [short_ema |-> short_ema[i], long_ema |-> long_ema[i],
             macd |-> line[i], macd_signal |-> macd_sig[i],
             macd_trend |-> DecSub(line[i], macd_sig[i])]]

\* MACD::sentiment on Decimals: the comparisons of iv.macd with the limits,
\* cleared of denominators
SentimentOf(sentiment, iv, entry_lim, exit_lim) ==
    MacdSentiment(sentiment,
                  iv.macd.num * entry_lim.den * exit_lim.den,
                  entry_lim.num * iv.macd.den * exit_lim.den,
                  exit_lim.num * iv.macd.den * entry_lim.den)

\* the loop of MACD::macd from the indicators after those of `output`:
\* the sentiment and the trade signal of each, or Panic when MACD::signal
\* panics on the way
RECURSIVE MacdOutput(_, _, _)
MacdOutput(indicators, macd, output) ==
    IF Len(output) = Len(indicators) THEN Returns(output)
    ELSE LET i == Len(output)
             needed == SamplesNeeded(MacdLength(macd)) + 1
             sentiment == IF i = 0 THEN "Neutral"
                          ELSE SentimentOf(output[i].sentiment,
                                   indicators[i + 1],
                                   macd.entry_lim, macd.exit_lim)
             signal == IF i = 0 \/ i < needed THEN Returns(None)
                       ELSE MacdSignal(output[i].sentiment, sentiment)
         IN  IF signal = Panic THEN Panic
             ELSE MacdOutput(indicators, macd,
                      Append(output, [sentiment |-> sentiment,
                                      trade_signal |-> signal.value]))

\* MACD::macd
Macd(history, macd) ==
    MacdOutput(MacdIndicators(history, macd), macd, << >>)

\* history.iter().take(n).rev(): the n newest frames, oldest first
TakeRev(history, n) ==
    LET m == Min(n, Len(history))
    IN  [i \in 1..m |-> history[m + 1 - i]]

\* TradingStrategy::signal without its guard on the length of the history
MacdStrategySignal_NoGuard(macd, history) ==
    LET take == SamplesNeeded(MacdLength(macd)) + 1
        output == Macd(TakeRev(history, take + 1), macd)
    IN  IF output = Panic THEN Panic
        ELSE IF output.value = << >> THEN Panic
        ELSE [kind |-> "signal",
              signal |-> output.value[Len(output.value)].trade_signal]

\* impl TradingStrategy for MACD: signal over a history, newest first;
\* macd.last().unwrap() panics on an empty output
MacdStrategySignal(macd, history) ==
    LET take == SamplesNeeded(MacdLength(macd)) + 1
        output == Macd(TakeRev(history, take + 1), macd)
    IN  IF take > Len(history) THEN [kind |-> "signal", signal |-> None]
        ELSE IF output = Panic THEN Panic
        ELSE IF output.value = << >> THEN Panic
        ELSE [kind |-> "signal",
              signal |-> output.value[Len(output.value)].trade_signal]

----------------------------------------------------------------------------
(* The MACD strategy on its own: two strategies asked for a signal over    *)
(* histories of two close prices, from no frame to more than they take     *)

\* windows whose alpha is a decimal of one place; the first needs 6 frames
\* of history and the second 7
MacdStrategies ==
    { MACD(1, 3, 1, Dec(2, 1), Dec(2, 1)),
      MACD(1, 4, 3, Dec(2, 1), Dec(1, 1)) }

MacdFrame(bid) ==
    Frame(Price(bid, bid + Spread), Price(bid, bid + Spread),
          Price(bid, bid + Spread), Price(bid, bid + Spread), 1)

RECURSIVE MacdHistoriesOf(_)
MacdHistoriesOf(n) ==
    IF n = 0 THEN { << >> }
    ELSE { << MacdFrame(b) >> \o h :
               b \in {10, 20}, h \in MacdHistoriesOf(n - 1) }

MacdHistories == UNION { MacdHistoriesOf(n) : n \in 0..MaxMacdHistory }

\* the strategy keeps no state between calls: a behaviour asks it once
AskSignal ==
    \E macd \in MacdStrategies, history \in MacdHistories :
        /\ call.op = "new"
        /\ call' = [op |-> "macd_signal", macd |-> macd,
                    history |-> history]
        /\ ret' = MacdStrategySignal(macd, history)
        /\ UNCHANGED << balance, price_history, closed_trades, live_trade >>
        /\ UNCHANGED backtest

NextSignal == AskSignal

SpecSignal == Init /\ [][NextSignal]_vars

----------------------------------------------------------------------------
(* The loop of MACD::macd past the warm-up, on the MACD values alone: the  *)
(* sentiment is stepped from the last one, Neutral at first, and the       *)
(* signal is that of the change                                            *)

ScanValue ==
    \E macd \in MacdValues, entry_lim \in EntryLimits, exit_lim \in ExitLimits :
        LET last == IF ret.kind = "macd_value" THEN ret.sentiment
                    ELSE "Neutral"
            sentiment == MacdSentiment(last, macd, entry_lim, exit_lim)
            signal == MacdSignal(last, sentiment)
        IN  /\ ret.kind # "panic"
            /\ call.op = "macd_scan" =>
                   entry_lim = call.entry_lim /\ exit_lim = call.exit_lim
            /\ call' = [op |-> "macd_scan", last |-> last, macd |-> macd,
                        entry_lim |-> entry_lim, exit_lim |-> exit_lim]
            /\ ret' = IF signal = Panic THEN Panic
                      ELSE [kind |-> "macd_value", sentiment |-> sentiment,
                            trade_signal |-> signal.value]
            /\ UNCHANGED << balance, price_history, closed_trades, live_trade >>
            /\ UNCHANGED backtest

SpecScan == Init /\ [][ScanValue]_vars

----------------------------------------------------------------------------
(* Resolution::Month added to a timestamp *)

IsLeapYear(year) ==
    year % 4 = 0 /\ (year % 100 # 0 \/ year % 400 = 0)

DaysInMonth(year, month) ==
    IF month = 2 THEN (IF IsLeapYear(year) THEN 29 ELSE 28)
    ELSE IF month \in {4, 6, 9, 11} THEN 30
    ELSE 31

DateTime(year, month, day, hour, minute, second, nanosecond) ==
    [year |-> year, month |-> month, day |-> day, hour |-> hour,
     minute |-> minute, second |-> second, nanosecond |-> nanosecond]

\* Datelike::with_month: the timestamp with its month replaced, None when
\* there is no such month or the month has no such day
WithMonth(time, month) ==
    IF month \in 1..12 /\ time.day <= DaysInMonth(time.year, month)
    THEN Some([time EXCEPT !.month = month])
    ELSE None

\* self.with_month(self.month() + 1).unwrap_or(
\*     self.timezone().ymd(self.year() + 1, 1, self.day())
\*         .and_hms(self.hour(), self.minute(), self.second()))
AddMonth(time) ==
    LET next == WithMonth(time, time.month + 1)
    IN  IF next # None THEN next[1]
        ELSE DateTime(time.year + 1, 1, time.day,
                      time.hour, time.minute, time.second, 0)

----------------------------------------------------------------------------
(* A month added to the timestamps of a leap year and of the year after    *)
(* it: the first and the last days of every month, at two times of day     *)

Timestamps ==
    { DateTime(y, m, d, t[1], t[2], t[3], t[4]) :
          y \in {2020, 2021}, m \in 1..12,
          d \in {1, 28, 29, 30, 31},
          t \in { << 10, 0, 0, 0 >>, << 23, 59, 59, 500 >> } }

ValidTimestamps == { t \in Timestamps : t.day <= DaysInMonth(t.year, t.month) }

AddsMonth ==
    \E time \in ValidTimestamps :
        /\ call' = [op |-> "add_month", time |-> time]
        /\ ret' = [kind |-> "time", time |-> AddMonth(time)]
        /\ UNCHANGED << balance, price_history, closed_trades, live_trade >>
        /\ UNCHANGED backtest

NextMonth == AddsMonth

SpecMonth == Init /\ [][NextMonth]_vars

----------------------------------------------------------------------------
(* The account and its books: a caller feeds frames, logs orders and reads *)
(* the trade log, in any order                                             *)

\* the orders of a caller that gives every position the same id
BookOrderInputs == { order \in OrderInputs : OrderId(order) = "1" }

LogBookOrder == \E order \in BookOrderInputs : LogOrderOf(order)

NextBooks == UpdatePrice \/ LogBookOrder \/ ReadTradeLog

SpecBooks == Init /\ [][NextBooks]_vars

----------------------------------------------------------------------------
(* Donchian::channel on its own: channels of one frame and more over lists *)
(* of frames long enough for the buffer to wrap                            *)

FrameLists == UNION { HistoriesOf(n) : n \in 0..(MaxChannel + 1) }

\* the channel is a function of its arguments: a behaviour asks for it once
AskChannel ==
    \E n \in ChannelLengths, frames \in FrameLists :
        /\ call.op = "new"
        /\ call' = [op |-> "donchian_channel", channel_length |-> n,
                    frames |-> frames]
        /\ ret' = [kind |-> "channel", channel |-> DonchianChannel(n, frames)]
        /\ UNCHANGED << balance, price_history, closed_trades, live_trade >>
        /\ UNCHANGED backtest

NextChannel == AskChannel

SpecChannel == Init /\ [][NextChannel]_vars

----------------------------------------------------------------------------
(* The effect of update_price on the account *)

\* the step is a call of update_price
UpdatesPrice == call'.op = "update_price" /\ price_history' # price_history

\* C11: update_price(frame) puts the frame at index 0 of the price history
\* and every earlier frame one index later, so that the history is the feed
\* newest first; it leaves the live position, the ledger and the balance as
\* they were, whatever it returns.
C11_FrameEffect ==
    [][ UpdatesPrice =>
           /\ Len(price_history') = Len(price_history) + 1
           /\ price_history'[1] = call'.frame
           /\ \A i \in DOMAIN price_history :
                  price_history'[i + 1] = price_history[i]
           /\ \A i \in DOMAIN price_history' :
                  price_history'[i].close_time = Len(price_history') + 1 - i
           /\ AccountUnchanged ]_vars

\* a second frame was fed to an account holding a position, and orders came
\* back
C11_Witness ==
    /\ Returned /\ Held /\ Len(ret.orders) > 0
    /\ Len(price_history) = 2
    /\ price_history[1] = call.frame
    /\ price_history[2].close_time = 1
    /\ price_history[2] # price_history[1]

----------------------------------------------------------------------------
(* Properties of trade_log, stated on the states in which trade_log has    *)
(* just returned *)

LogReturned == call.op = "trade_log" /\ ret.kind = "trades"

\* how many times the trade occurs in the sequence
Occurrences(seq, trade) == Len(SelectSeq(seq, LAMBDA t : t = trade))

\* the live position as trade_log shows it
LiveAsTrade ==
    IF live_trade = None THEN << >>
    ELSE TradeOpen(live_trade[1], call.latest_price)

\* C12: trade_log returns the closed trades and, if a position is live, that
\* position as an Open trade valued at latest_price, each as often as the
\* account holds it and nothing else, in non-decreasing order of entry time.
C12_TradeLogSorted ==
    LogReturned =>
        LET held == closed_trades \o LiveAsTrade
            log == ret.trades
        IN  /\ Len(log) = Len(held)
            /\ \A i \in DOMAIN held :
                   Occurrences(log, held[i]) = Occurrences(held, held[i])
            /\ \A i \in DOMAIN log :
                   log[i].status = "Open" =>
                       /\ live_trade # None
                       /\ log[i] = LiveAsTrade[1]
            /\ \A i, j \in DOMAIN log :
                   i < j => log[i].entry_time <= log[j].entry_time

\* the live position was entered before a closed trade of the ledger and
\* comes first in the log
C12_Witness ==
    /\ LogReturned /\ Held /\ Len(closed_trades) > 0
    /\ Lt.time < closed_trades[1].entry_time
    /\ ret.trades[1].status = "Open"
    /\ ret.trades[2] = closed_trades[1]

----------------------------------------------------------------------------
(* Properties of validate_entry, stated on the states in which it has just *)
(* returned *)

Validated == call.op = "validate_entry"

TooSmall == call.order.size < call.market.min_deal_size

Unaffordable ==
    RoundDiv(call.order.size * call.order.price * call.market.margin_factor.num,
             call.market.margin_factor.den) > call.balance

TooClose ==
    Abs(call.order.price - call.order.stop) < call.market.min_stop_distance

\* C16: validate_entry returns DealTooSmall when the size is below the
\* minimum, else InsufficientBalance when size * price * margin_factor exceeds
\* the balance, else StopTooClose when the stop is nearer than the minimum
\* distance, and Ok exactly when none of the three fails; the account is as
\* it was.
C16_FirstFailingCheck ==
    Validated =>
        /\ TooSmall => ret = MarketErr("DealTooSmall")
        /\ (~TooSmall /\ Unaffordable) => ret = MarketErr("InsufficientBalance")
        /\ (~TooSmall /\ ~Unaffordable /\ TooClose) =>
               ret = MarketErr("StopTooClose")
        /\ ret = Ok <=> (~TooSmall /\ ~Unaffordable /\ ~TooClose)
        /\ balance = OpeningBalanceUnits * Scale
        /\ live_trade = None /\ closed_trades = << >>

\* an entry of sufficient size was both unaffordable and too close to its
\* stop, and the margin was reported
C16_Witness ==
    /\ Validated /\ ~TooSmall /\ Unaffordable /\ TooClose
    /\ ret = MarketErr("InsufficientBalance")

----------------------------------------------------------------------------
(* Properties of Backtest::run *)

\* the step feeds a frame to the account / places the next order
RunsFrame == UpdatesPrice
PlacesOrder ==
    call'.op = "place_order" /\ orders # << >> /\ orders' = Tail(orders)

\* the order went through: the trace entry is Ok(order)
IsPlaced(event) == "ok" \in DOMAIN event
IsRejection(event) ==
    "err" \in DOMAIN event /\ event.err[1] = "Market rejected entry: "

\* the Opens the trace holds as placed
OpensPlaced(events) ==
    SelectSeq(events, LAMBDA e : IsPlaced(e) /\ e.ok.kind = "Open")

\* C13: an Open that is logged carries the current counter and leaves it as
\* it is; a Close or Stop that is logged carries the current counter, which
\* is the id of the live position and of the last Open placed, and advances
\* it by one; the trade it closes keeps that id.
C13_SharedId ==
    [][ (PlacesOrder /\ ret'.kind = "event" /\ IsPlaced(ret'.event)) =>
           LET o == ret'.event.ok
               opens == OpensPlaced(trace)
           IN  /\ OrderId(o) = ToString(p_id)
               /\ o.kind = "Open" =>
                      /\ p_id' = p_id
                      /\ live_trade' = Some(o.entry)
               /\ IsExit(o) =>
                      /\ p_id' = p_id + 1
                      /\ live_trade # None
                      /\ o.exit.position_id = live_trade[1].position_id
                      /\ opens # << >>
                      /\ opens[Len(opens)].ok.entry = live_trade[1]
                      /\ closed_trades'[Len(closed_trades')].id =
                             o.exit.position_id ]_vars

\* the second position of a run was opened and closed under the id "1"
C13_Witness ==
    /\ call.op = "place_order" /\ ret.kind = "event" /\ IsPlaced(ret.event)
    /\ IsExit(ret.event.ok)
    /\ ret.event.ok.exit.position_id = "1"
    /\ p_id = 2
    /\ Len(closed_trades) = 2 /\ closed_trades[2].id = "1"
    /\ closed_trades[1].id = "0"

\* C14: an Open the market rejects is dropped: log_order is not called, the
\* live position, the ledger, the balance and the counter stay as they
\* were, and the trace grows by one entry, the rejection.
C14_RejectedOpenDropped ==
    [][ ( /\ PlacesOrder
          /\ call'.order.kind = "Open"
          /\ ValidateEntry(RunMarket, call'.order.entry, balance) # Ok ) =>
           /\ ~call'.logged
           /\ AccountUnchanged
           /\ p_id' = p_id
           /\ Len(trace') = Len(trace) + 1
           /\ SubSeq(trace', 1, Len(trace)) = trace
           /\ IsRejection(trace'[Len(trace')])
           /\ trace'[Len(trace')].err[2] = call'.order.entry ]_vars

\* the Open of a reversal was rejected after its Close had gone through
C14_Witness ==
    /\ call.op = "place_order" /\ call.order.kind = "Open" /\ ~call.logged
    /\ Len(trace) >= 2
    /\ IsRejection(trace[Len(trace)])
    /\ IsPlaced(trace[Len(trace) - 1])
    /\ trace[Len(trace) - 1].ok.kind = "Close"
    /\ live_trade = None /\ p_id = 1

\* the order a trace entry is about, as update_price returned it
EventOrder(event) ==
    IF IsPlaced(event) THEN Stamped(event.ok, 0)
    ELSE IF IsRejection(event)
        THEN Stamped(Open(event.err[2]), 0)
    ELSE event

\* the time an order was issued
OrderTime(order) ==
    IF order.kind = "Open" THEN order.entry.time ELSE order.exit.time

\* the entries of the trace, one after another, are about frames in feed
\* order and, within a frame, about the exit before the Open
InEncounterOrder(events) ==
    \A i, j \in DOMAIN events :
        i < j =>
            LET a == EventOrder(events[i])
                b == EventOrder(events[j])
            IN  \/ OrderTime(a) < OrderTime(b)
                \/ /\ OrderTime(a) = OrderTime(b)
                   /\ IsExit(a) /\ b.kind = "Open"

\* C15: run places the orders of a frame before it feeds the next frame, and
\* every order placed, accepted or rejected, adds exactly one entry to the
\* end of the trace, the entry for that order, while the orders after it
\* stay to be placed; so the trace is in encounter order.
C15_OneEntryPerOrder ==
    [][ /\ RunsFrame =>
               /\ orders = << >>
               /\ trace' = trace
               /\ ret'.kind = "orders" => orders' = ret'.orders
        /\ (PlacesOrder /\ ret'.kind = "event") =>
               /\ trace' = Append(trace, ret'.event)
               /\ EventOrder(ret'.event) = Stamped(Head(orders), 0)
               /\ orders' = Tail(orders)
               /\ InEncounterOrder(trace') ]_vars

\* an Open was rejected in the middle of a run, and the next frame's Open
\* was placed after it
C15_Witness ==
    /\ Len(trace) = 4
    /\ IsPlaced(trace[1]) /\ IsPlaced(trace[2])
    /\ IsRejection(trace[3])
    /\ IsPlaced(trace[4]) /\ trace[4].ok.kind = "Open"
    /\ trace[4].ok.entry.time = 3
    /\ trace[3].err[2].time = 2

----------------------------------------------------------------------------
(* Properties of Trade::closed, stated on the states in which it has just  *)
(* returned a trade *)

TradeBuilt == call.op = "closed" /\ ret.kind = "trade"

\* C17: a closed trade has risk = size * |entry price - stop|, profit =
\* size * (exit price - entry price) for a Buy and size * (entry price -
\* exit price) for a Sell, risk_reward = profit / risk, and the outcome
\* Profit exactly when the profit is positive; a profit of zero is a Loss.
C17_TradeFigures ==
    TradeBuilt =>
        LET e == call.entry
            x == call.exit
            t == ret.trade
            gain == IF e.direction = "Buy" THEN x.price - e.price
                    ELSE e.price - x.price
        IN  /\ t.risk = e.size * Abs(e.price - e.stop)
            /\ t.profit = e.size * gain
            /\ t.risk # 0
            /\ t.risk_reward.den > 0
            /\ t.risk_reward.num * t.risk = t.profit * t.risk_reward.den
            /\ t.outcome = (IF t.profit > 0 THEN "Profit" ELSE "Loss")
            /\ gain = 0 => t.outcome = "Loss"

\* a Sell closed at its entry price is a Loss with a risk_reward of zero
C17_Witness ==
    /\ TradeBuilt
    /\ call.entry.direction = "Sell" /\ call.exit.price = call.entry.price
    /\ ret.trade.profit = 0 /\ ret.trade.risk > 0
    /\ ret.trade.outcome = "Loss"
    /\ ret.trade.risk_reward.num = 0

----------------------------------------------------------------------------
(* Properties of RiskStrategy::entry, stated on the states in which it has *)
(* just returned *)

EntryAsked == call.op = "entry" /\ ret.kind # "panic"

\* C18: entry returns the error of stop() when stop() fails; otherwise an
\* Entry in the direction asked, priced at the newest frame's close ask for
\* a Buy and close bid for a Sell, with the stop of stop(), the size risk /
\* |price - stop| (to the nearest 0.000001), the newest frame's close_time
\* and an empty position id.
C18_EntrySizing ==
    EntryAsked =>
        /\ call.stop = NotEnoughHistory =>
               ret = [kind |-> "Err", err |-> "NotEnoughHistory"]
        /\ call.stop # NotEnoughHistory =>
               LET newest == call.history[1]
                   price == IF call.direction = "Buy" THEN newest.close.ask
                            ELSE newest.close.bid
                   distance == Abs(price - call.stop.ok)
               IN  /\ ret.kind = "entry"
                   /\ ret.entry.direction = call.direction
                   /\ ret.entry.price = price
                   /\ ret.entry.stop = call.stop.ok
                   /\ distance > 0
                   /\ 2 * Abs(ret.entry.size * distance - call.risk)
                          <= distance
                   /\ ret.entry.time = newest.close_time
                   /\ ret.entry.position_id = ""

\* a Buy sized over three points on the newer of two frames that close at
\* different prices: 10 / 3 is 3.333333
C18_Witness ==
    /\ EntryAsked /\ ret.kind = "entry"
    /\ Len(call.history) = 2
    /\ call.history[1].close # call.history[2].close
    /\ call.direction = "Buy" /\ call.risk = 10 * Scale
    /\ ret.entry.price - ret.entry.stop = 3
    /\ ret.entry.size = 3333333
    /\ ret.entry.time = 2

----------------------------------------------------------------------------
(* Properties of Donchian::stop, stated on the states in which it has just *)
(* returned *)

DonchianAsked == call.op = "donchian_stop"

\* the frames of the channel: the channel_length newest of the history
Channel == SubSeq(call.history, 1, call.channel_length)

\* C19: Donchian::stop fails with NotEnoughHistory exactly when the history
\* is shorter than the channel; otherwise it returns the lowest low bid of
\* the channel_length newest frames for a Buy and their highest high ask
\* for a Sell, whatever the older frames are.
C19_DonchianStop ==
    DonchianAsked =>
        /\ ret.answer = NotEnoughHistory
               <=> Len(call.history) < call.channel_length
        /\ Len(call.history) >= call.channel_length =>
               /\ "ok" \in DOMAIN ret.answer
               /\ call.direction = "Buy" =>
                      /\ \E i \in DOMAIN Channel :
                             ret.answer.ok = Channel[i].low.bid
                      /\ \A i \in DOMAIN Channel :
                             ret.answer.ok <= Channel[i].low.bid
               /\ call.direction = "Sell" =>
                      /\ \E i \in DOMAIN Channel :
                             ret.answer.ok = Channel[i].high.ask
                      /\ \A i \in DOMAIN Channel :
                             ret.answer.ok >= Channel[i].high.ask

\* a frame older than the channel has a lower low than the channel, and the
\* stop of a Buy is the low of the channel
C19_Witness ==
    /\ DonchianAsked /\ call.direction = "Buy"
    /\ call.channel_length = 2 /\ Len(call.history) = 3
    /\ call.history[3].low.bid = 1
    /\ call.history[2].low.bid = 2 /\ call.history[1].low.bid = 2
    /\ ret.answer = OkStop(2)

----------------------------------------------------------------------------
(* Properties of MACD::sentiment, stated on the states in which it has     *)
(* just returned *)

Stepped == call.op = "sentiment"

Was(sentiments) == call.sentiment \in sentiments

\* the four rules of the step, each applying when none before it does
TurnsBullish == Was({"Bearish", "Neutral"}) /\ call.macd > call.entry_lim
TurnsBearish ==
    /\ ~TurnsBullish
    /\ Was({"Bullish", "Neutral"}) /\ call.macd < -call.entry_lim
CoolsFromBullish ==
    /\ ~TurnsBearish
    /\ Was({"Bullish"}) /\ call.macd <= call.exit_lim
CoolsFromBearish ==
    /\ ~TurnsBullish
    /\ Was({"Bearish"}) /\ call.macd >= -call.exit_lim

\* C20: the sentiment step turns Bearish or Neutral into Bullish when the
\* MACD is above the entry limit; else Bullish or Neutral into Bearish when
\* it is below minus the entry limit; else Bullish into Neutral when it is
\* at most the exit limit and Bearish into Neutral when it is at least
\* minus the exit limit; in every other case the sentiment stays.
C20_SentimentStep ==
    Stepped =>
        /\ TurnsBullish => ret.sentiment = "Bullish"
        /\ TurnsBearish => ret.sentiment = "Bearish"
        /\ CoolsFromBullish => ret.sentiment = "Neutral"
        /\ CoolsFromBearish => ret.sentiment = "Neutral"
        /\ ~(TurnsBullish \/ TurnsBearish \/ CoolsFromBullish
                \/ CoolsFromBearish) => ret.sentiment = call.sentiment

\* a Bullish sentiment cooled to Neutral with the MACD on the exit limit
C20_Witness ==
    /\ Stepped /\ call.sentiment = "Bullish"
    /\ call.entry_lim = 2 /\ call.exit_lim = 1 /\ call.macd = 1
    /\ ret.sentiment = "Neutral"

----------------------------------------------------------------------------
(* Properties of the EMA, stated on the states in which the averages of an *)
(* input over every window have been collected *)

Averaged == call.op = "ema"

\* C22: the EMA is as long as its input, its first value is the first
\* sample, and every later value is alpha * sample + (1 - alpha) * previous
\* value with alpha = 2 / (N + 1): (N + 1) * value = 2 * sample + (N - 1) *
\* previous value.
C22_EmaRecurrence ==
    Averaged =>
        \A length \in EmaWindows :
            LET output == ret.ema[length]
            IN  /\ Len(output) = Len(call.input)
                /\ \A i \in DOMAIN output :
                       IF i = 1 THEN output[1] = call.input[1]
                       ELSE (length + 1) * output[i].num
                                * call.input[i].den * output[i - 1].den
                            = ( 2 * call.input[i].num * output[i - 1].den
                                + (length - 1) * output[i - 1].num
                                      * call.input[i].den )
                                * output[i].den

\* the samples 0, 5, 5, 3 averaged over a window of 3: 0, 2.5, 3.75, 3.375
C22_Witness ==
    /\ Averaged
    /\ call.input = << Dec(0, 1), Dec(5, 1), Dec(5, 1), Dec(3, 1) >>
    /\ ret.ema[3] = << Dec(0, 1), Dec(5, 2), Dec(15, 4), Dec(27, 8) >>

\* the input is one value repeated
Constant(input, v) == \A i \in DOMAIN input : input[i] = v

\* C23: the EMA of a constant sequence of value V is V at every position, for
\* every window length.
C23_EmaOfConstant ==
    Averaged =>
        \A x \in EmaSamples :
            Constant(call.input, Dec(x, 1)) =>
                \A length \in EmaWindows :
                    /\ Len(ret.ema[length]) = Len(call.input)
                    /\ Constant(ret.ema[length], Dec(x, 1))

C23_Witness ==
    /\ Averaged
    /\ call.input = << Dec(3, 1), Dec(3, 1), Dec(3, 1), Dec(3, 1) >>
    /\ \A length \in EmaWindows :
           ret.ema[length] = << Dec(3, 1), Dec(3, 1), Dec(3, 1), Dec(3, 1) >>

\* a run of `low` followed by a run of the higher `high`
Step(input, low, high) ==
    /\ DecLess(low, high)
    /\ \E k \in 1..(Len(input) - 1) :
           \A i \in DOMAIN input :
               input[i] = IF i <= k THEN low ELSE high

IsStep(input) ==
    \E l, h \in EmaSamples : Step(input, Dec(l, 1), Dec(h, 1))

PostStep(input) == input[Len(input)]

NonDecreasing(output) ==
    \A i \in DOMAIN output : i > 1 => DecLeq(output[i - 1], output[i])

\* the step response over the windows `windows`: non-decreasing, never above
\* the post-step value, and component-wise no lower for a shorter window
StepResponse(windows) ==
    /\ \A length \in windows :
           /\ NonDecreasing(ret.ema[length])
           /\ \A i \in DOMAIN ret.ema[length] :
                  DecLeq(ret.ema[length][i], PostStep(call.input))
    /\ \A short, long \in windows :
           short < long =>
               \A i \in DOMAIN call.input :
                   DecLeq(ret.ema[long][i], ret.ema[short][i])

\* C24 as stated, for every window length: refuted by a window of 0, whose
\* alpha is 2, so that the value after the step from 0 to 5 is 10.
C24_StepAnyWindow ==
    (Averaged /\ IsStep(call.input)) => StepResponse(EmaWindows)

\* C24: for a step input the EMA over a window of at least 1 is
\* non-decreasing and never exceeds the post-step value, and over a shorter
\* window (of at least 1) it is component-wise greater than or equal to the
\* EMA over a longer window.
C24_StepResponse ==
    (Averaged /\ IsStep(call.input)) => StepResponse(EmaWindows \ {0})

\* the step 0, 0, 5, 5: window 1 follows it, window 3 gives 0, 0, 2.5, 3.75
\* and window 4 gives 0, 0, 2, 3.2
C24_Witness ==
    /\ Averaged
    /\ call.input = << Dec(0, 1), Dec(0, 1), Dec(5, 1), Dec(5, 1) >>
    /\ ret.ema[1] = call.input
    /\ ret.ema[3] = << Dec(0, 1), Dec(0, 1), Dec(5, 2), Dec(15, 4) >>
    /\ ret.ema[4] = << Dec(0, 1), Dec(0, 1), Dec(2, 1), Dec(16, 5) >>

----------------------------------------------------------------------------
(* Properties of the MACD strategy, stated on the states in which it has   *)
(* just been asked for a signal *)

SignalAsked == call.op = "macd_signal"

\* C21: over a history of fewer than
\* samples_needed(max(short, long, signal), 0.1) + 1 frames the MACD strategy
\* answers no signal, and does not fail.
C21_NoOpinion ==
    (/\ SignalAsked
     /\ Len(call.history)
            < SamplesNeeded(Max(Max(call.macd.short, call.macd.long),
                                call.macd.signal)) + 1)
        => ret = [kind |-> "signal", signal |-> None]

\* the strategy of windows 1, 3 and 1 needs 5 samples and one more: asked
\* over no frame it has no signal, and over five frames whose newest close
\* has jumped it has none either
C21_Witness ==
    /\ SignalAsked
    /\ call.macd.long = 3
    /\ SamplesNeeded(3) = 5
    /\ Len(call.history) = 5
    /\ call.history[1] = MacdFrame(20)
    /\ \A i \in 2..5 : call.history[i] = MacdFrame(10)
    /\ ret = [kind |-> "signal", signal |-> None]

----------------------------------------------------------------------------
(* A rejected Open and the frame after it *)

LastEvent == trace[Len(trace)]

\* the step feeds the frame that follows a frame whose Open the market
\* rejected, no position being live and the trend being the one the
\* rejected Open followed
RunsFrameAfterRejection ==
    /\ RunsFrame
    /\ ret'.kind = "orders"
    /\ live_trade = None
    /\ trace # << >>
    /\ IsRejection(LastEvent)
    /\ LastEvent.err[2].time = Len(price_history)
    /\ TrendDirection(call'.trend) = Some(LastEvent.err[2].direction)

\* C25 as stated: on the frame after a rejected Open, the trend unchanged and
\* no position live, no further Open is proposed.  Refuted: update_price asks
\* the risk strategy again.
C25_NoFurtherOpen ==
    [][ RunsFrameAfterRejection =>
           SelectSeq(ret'.orders, LAMBDA o : o.kind = "Open") = << >> ]_vars

\* C25: the rejected Open itself is not resubmitted, but on the frame after
\* it, the trend unchanged and no position live, update_price asks the risk
\* strategy again and, when it gives an entry, returns exactly one Open, in
\* the same direction and made on the new frame, which the run goes on to
\* submit; only when the risk strategy refuses is nothing returned.
C25_ReproposedOnNextFrame ==
    [][ RunsFrameAfterRejection =>
           /\ call'.stop # None
           /\ call'.stop = Some(NotEnoughHistory) => ret'.orders = << >>
           /\ call'.stop # Some(NotEnoughHistory) =>
                  /\ Len(ret'.orders) = 1
                  /\ ret'.orders[1].kind = "Open"
                  /\ ret'.orders[1].entry.direction =
                         LastEvent.err[2].direction
                  /\ ret'.orders[1].entry.time = call'.frame.close_time
                  /\ ret'.orders[1].entry.time = LastEvent.err[2].time + 1
                  /\ ret'.orders[1].entry.stop = call'.stop[1].ok
           /\ orders' = ret'.orders ]_vars

\* a Buy was rejected on the first frame and a Buy is proposed again on the
\* second
C25_Witness ==
    /\ Returned /\ ~Held
    /\ Len(trace) = 1 /\ IsRejection(trace[1])
    /\ trace[1].err[2].direction = "Buy" /\ trace[1].err[2].time = 1
    /\ call.trend = "Bullish" /\ call.frame.close_time = 2
    /\ Len(ret.orders) = 1
    /\ ret.orders[1].kind = "Open"
    /\ ret.orders[1].entry.direction = "Buy"
    /\ orders = ret.orders

----------------------------------------------------------------------------
(* Properties of the addition of Resolution::Month *)

MonthAdded == call.op = "add_month"

TimeOfDay(time) ==
    << time.hour, time.minute, time.second, time.nanosecond >>

\* C26: a month added to a timestamp gives the same day and time of day in
\* the next calendar month, the year being incremented only when the
\* timestamp was in December, for every valid timestamp.  Refuted: a day the
\* next month does not have is moved to January of the next year.
C26_NextCalendarMonth ==
    MonthAdded =>
        /\ ret.time.day = call.time.day
        /\ TimeOfDay(ret.time) = TimeOfDay(call.time)
        /\ IF call.time.month = 12
           THEN ret.time.month = 1 /\ ret.time.year = call.time.year + 1
           ELSE /\ ret.time.month = call.time.month + 1
                /\ ret.time.year = call.time.year

----------------------------------------------------------------------------
(* The balance and the ledger *)

RECURSIVE SumOfProfits(_)
SumOfProfits(trades) ==
    IF trades = << >> THEN 0
    ELSE trades[1].profit + SumOfProfits(Tail(trades))

\* C27: after every call the balance is the opening balance plus the sum of
\* the profits of the trades in the closed-trade ledger, whatever position
\* is live; and a call that closes no position (an Open, a log_order that
\* fails, update_price, trade_log) leaves the balance as it was.
C27_BalanceIsLedgerSum ==
    [][ /\ balance' = OpeningBalanceUnits * Scale + SumOfProfits(closed_trades')
        /\ closed_trades' = closed_trades => balance' = balance
        /\ (call'.op \in {"update_price", "trade_log"}
               \/ LogsOpen \/ ret'.kind \in {"Err", "panic"}) =>
               /\ balance' = balance
               /\ closed_trades' = closed_trades ]_vars

\* a position was closed at a profit and another one is live, read at a price
\* at which it has a loss that the balance does not hold
C27_Witness ==
    /\ call.op = "trade_log" /\ ret.kind # "panic"
    /\ Len(closed_trades) = 1 /\ closed_trades[1].profit > 0
    /\ live_trade # None
    /\ Len(ret.trades) = 2
    /\ ret.trades[2].status = "Open" /\ ret.trades[2].profit < 0
    /\ balance = OpeningBalanceUnits * Scale + closed_trades[1].profit

----------------------------------------------------------------------------
(* Re-entry after a stop, and the fields of the exits of update_price *)

\* C28: when the frame crosses the live position's stop and the trend is
\* Bullish or Bearish, be it the direction of the stopped position or the
\* opposite one, the risk strategy is asked for an entry and, when it gives
\* one, update_price returns [Stop, Open] with the Open in the direction of
\* the trend.
C28_ReentryAfterStop ==
    (call.op = "update_price" /\ StopCrossed /\ call.trend # "Neutral") =>
        /\ call.stop # None
        /\ (Returned /\ StopGiven) =>
               /\ Len(ret.orders) = 2
               /\ ret.orders[1].kind = "Stop"
               /\ ret.orders[1].exit.position_id = Lt.position_id
               /\ ret.orders[2].kind = "Open"
               /\ ret.orders[2].entry.direction =
                      (IF call.trend = "Bullish" THEN "Buy" ELSE "Sell")
               /\ ret.orders[2].entry.stop = call.stop[1].ok
               /\ ret.orders[2].entry.time = call.frame.close_time

\* a Buy was stopped out on a Bullish frame and a Buy proposed again
C28_Witness ==
    /\ Returned /\ StopCrossed /\ Agrees /\ StopGiven
    /\ Lt.direction = "Buy"
    /\ Len(ret.orders) = 2
    /\ ret.orders[1].kind = "Stop"
    /\ ret.orders[2].kind = "Open"
    /\ ret.orders[2].entry.direction = "Buy"

\* C29: every Stop or Close that update_price returns carries the position
\* id of the live entry, the close_time of the frame, and the frame's close
\* bid when the live position is a Buy, its close ask when it is a Sell.
C29_ExitFields ==
    (Returned /\ Held) =>
        \A i \in DOMAIN ret.orders :
            IsExit(ret.orders[i]) =>
                /\ ret.orders[i].exit.position_id = Lt.position_id
                /\ ret.orders[i].exit.time = call.frame.close_time
                /\ Lt.direction = "Buy" =>
                       ret.orders[i].exit.price = call.frame.close.bid
                /\ Lt.direction = "Sell" =>
                       ret.orders[i].exit.price = call.frame.close.ask

\* a Sell entered at time 1 under the id 2 was closed by the second frame,
\* at its close ask
C29_Witness ==
    /\ Returned /\ Held
    /\ Lt.direction = "Sell" /\ Lt.position_id = "2" /\ Lt.time = 1
    /\ call.frame.close_time = 2
    /\ Len(ExitsReturned) = 1
    /\ ExitsReturned[1].kind = "Close"
    /\ ExitsReturned[1].exit =
           Exit("2", call.frame.close.ask, 2)

----------------------------------------------------------------------------
(* Donchian::channel against Donchian::stop *)

ChannelAsked == call.op = "donchian_channel"

\* the frames up to the i-th one, newest first: the history of an account
\* that has been fed the first i frames
HistoryAt(i) == [j \in 1..i |-> call.frames[i + 1 - j]]

\* the lowest low bid and the highest high ask of the frames from..to
LimitsOf(from, to) ==
    << CHOOSE lo \in { call.frames[j].low.bid : j \in from..to } :
           \A j \in from..to : lo <= call.frames[j].low.bid,
       CHOOSE hi \in { call.frames[j].high.ask : j \in from..to } :
           \A j \in from..to : hi >= call.frames[j].high.ask >>

\* C30: Donchian::channel yields one pair per frame; from the N-th frame on
\* (position N - 1 and beyond) the pair is (stop(Buy), stop(Sell)) as
\* Donchian::stop computes them on the newest-first history ending at that
\* frame, which is the lowest low bid and the highest high ask of the N
\* frames ending there; before that it is the lowest low bid and the highest
\* high ask of the frames seen so far.
C30_ChannelIsStop ==
    ChannelAsked =>
        /\ Len(ret.channel) = Len(call.frames)
        /\ \A i \in DOMAIN ret.channel :
               LET n == call.channel_length
               IN  IF i >= n
                   THEN /\ ret.channel[i] =
                               << DonchianStop(n, "Buy", HistoryAt(i)).ok,
                                  DonchianStop(n, "Sell", HistoryAt(i)).ok >>
                        /\ ret.channel[i] = LimitsOf(i - n + 1, i)
                   ELSE ret.channel[i] = LimitsOf(1, i)

\* a channel of two frames over four: the low of the first frame is seen at
\* the first two positions and has left the channel at the third
C30_Witness ==
    /\ ChannelAsked /\ call.channel_length = 2 /\ Len(call.frames) = 4
    /\ call.frames[1].low.bid = 1
    /\ \A i \in 2..4 : call.frames[i].low.bid = 2
    /\ ret.channel[1][1] = 1 /\ ret.channel[2][1] = 1
    /\ ret.channel[3][1] = 2 /\ ret.channel[4][1] = 2

----------------------------------------------------------------------------
(* Invariants of a Backtest run *)

\* the entries of the trace that are Ok(order), and the orders in them
Accepted == SelectSeq(trace, IsPlaced)

\* C31: in a run the id counter equals the number of trades in the ledger,
\* the k-th closed trade (from 0) has the id k, so that the ids of the ledger
\* are pairwise distinct, and the live position, if there is one, has the
\* current counter as its id, which no closed trade has.
C31_CounterIsLedgerSize ==
    /\ p_id = Len(closed_trades)
    /\ \A k \in DOMAIN closed_trades : closed_trades[k].id = ToString(k - 1)
    /\ \A j, k \in DOMAIN closed_trades :
           j # k => closed_trades[j].id # closed_trades[k].id
    /\ live_trade # None =>
           /\ live_trade[1].position_id = ToString(p_id)
           /\ \A k \in DOMAIN closed_trades :
                  closed_trades[k].id # live_trade[1].position_id

\* two positions were closed under the ids 0 and 1 and a third is live under
\* the id 2
C31_Witness ==
    /\ p_id = 2
    /\ Len(closed_trades) = 2
    /\ closed_trades[1].id = "0" /\ closed_trades[2].id = "1"
    /\ live_trade # None /\ live_trade[1].position_id = "2"

\* C32: in a run log_order returns no AccountError: every order placed that
\* is not an Open the market rejects is logged and accepted, every error in
\* the trace is a rejection by the market, and every Close or Stop placed
\* advances the counter.
C32_NoAccountError ==
    [][ (PlacesOrder /\ ret'.kind = "event") =>
           /\ \A i \in DOMAIN trace' :
                  IsPlaced(trace'[i]) \/ IsRejection(trace'[i])
           /\ IsRejection(ret'.event) =>
                  /\ call'.order.kind = "Open"
                  /\ ~call'.logged
           /\ call'.logged => IsPlaced(ret'.event)
           /\ IsExit(call'.order) =>
                  /\ call'.logged
                  /\ p_id' = p_id + 1 ]_vars

\* a run went through a rejection and through a Close and an Open after it,
\* both accepted
C32_Witness ==
    /\ call.op = "place_order" /\ ret.kind = "event"
    /\ Len(trace) = 3
    /\ IsRejection(trace[1])
    /\ IsPlaced(trace[2]) /\ trace[2].ok.kind = "Open"
    /\ IsPlaced(trace[3]) /\ IsExit(trace[3].ok)
    /\ p_id = 1

\* C33: the accepted entries of the trace alternate, beginning with an Open:
\* the first, third, ... are Opens and the second, fourth, ... are Closes or
\* Stops.
C33_AcceptedAlternate ==
    \A i \in DOMAIN Accepted :
        IF i % 2 = 1 THEN Accepted[i].ok.kind = "Open"
        ELSE IsExit(Accepted[i].ok)

\* Open, Stop, Open, Close were accepted, with a rejection among them
C33_Witness ==
    /\ Len(Accepted) = 4
    /\ Len(trace) > 4
    /\ Accepted[1].ok.kind = "Open" /\ Accepted[2].ok.kind = "Stop"
    /\ Accepted[3].ok.kind = "Open" /\ Accepted[4].ok.kind = "Close"

\* C34: over frames of strictly increasing close_time, every closed trade
\* was exited strictly after it was entered and entered at or after the exit
\* of the trade closed before it, so that the ledger is in non-decreasing
\* order of entry time.
C34_NoOverlap ==
    /\ \A i \in DOMAIN price_history :
           i > 1 => price_history[i].close_time < price_history[i - 1].close_time
    /\ \A k \in DOMAIN closed_trades :
           /\ closed_trades[k].exit_time # None
           /\ closed_trades[k].entry_time < closed_trades[k].exit_time[1]
           /\ k > 1 =>
                  /\ closed_trades[k - 1].exit_time[1]
                         <= closed_trades[k].entry_time
                  /\ closed_trades[k - 1].entry_time
                         <= closed_trades[k].entry_time

\* a position entered on the first frame was reversed on the second, and the
\* position entered then was closed on the third
C34_Witness ==
    /\ Len(closed_trades) = 2
    /\ closed_trades[1].entry_time = 1 /\ closed_trades[1].exit_time = Some(2)
    /\ closed_trades[2].entry_time = 2 /\ closed_trades[2].exit_time = Some(3)

----------------------------------------------------------------------------
(* The balance an Open is sized from and the balance it is validated       *)
(* against *)

\* the step places the Open that update_price returned behind an exit, the
\* exit having been logged
PlacesOpenAfterExit ==
    /\ PlacesOrder /\ ret'.kind = "event"
    /\ call'.order.kind = "Open"
    /\ trace # << >> /\ IsPlaced(LastEvent) /\ IsExit(LastEvent.ok)
    /\ LastEvent.ok.exit.time = call'.order.entry.time

\* the trade the exit closed
Booked == closed_trades[Len(closed_trades)]

\* the size RiskStrategy::entry gives an entry on the budget of a balance
SizedFrom(entry, bal) ==
    RoundDiv(RoundDiv(bal * RiskPerTradeNum, RiskPerTradeDen),
             Abs(entry.price - entry.stop))

\* C35: the Open that update_price returns behind an exit is sized on the
\* balance as it was before the exit's profit or loss was booked, and is
\* accepted or rejected by the market on the balance after the exit has
\* been logged.
C35_SizedBeforeValidatedAfter ==
    [][ PlacesOpenAfterExit =>
           LET entry == call'.order.entry
           IN  /\ balance = OpeningBalanceUnits * Scale
                               + SumOfProfits(closed_trades)
               /\ entry.size = SizedFrom(entry, balance - Booked.profit)
               /\ IsPlaced(ret'.event)
                      <=> ValidateEntry(MarginMarket, entry, balance) = Ok
               /\ IsRejection(ret'.event) =>
                      ret'.event.err[4] =
                          ValidateEntry(MarginMarket, entry, balance).err ]_vars

\* a position was closed at a loss and the Open behind its exit, sized on
\* the balance before the loss, was rejected for a margin that the balance
\* before the loss would have covered
C35_Witness ==
    /\ call.op = "place_order" /\ call.order.kind = "Open"
    /\ ret.kind = "event" /\ IsRejection(ret.event)
    /\ ret.event.err[4] = "InsufficientBalance"
    /\ Len(trace) >= 2
    /\ IsPlaced(trace[Len(trace) - 1]) /\ IsExit(trace[Len(trace) - 1].ok)
    /\ Booked.profit < 0
    /\ call.order.entry.size
           = SizedFrom(call.order.entry, balance - Booked.profit)
    /\ call.order.entry.size # SizedFrom(call.order.entry, balance)
    /\ ValidateEntry(MarginMarket, call.order.entry,
                     balance - Booked.profit) = Ok

----------------------------------------------------------------------------
(* The Donchian stop and the divisions by the stop distance *)

\* C36: with the Donchian stop, over frames with bid <= ask and
\* low <= close <= high, every Open that update_price proposes has a price
\* different from its stop and no call aborts on a division by zero.
\* Refuted: on a frame without spread that closes on its low, the stop of a
\* Buy is the entry price.
C36_NeverDividesByZero ==
    /\ ret.kind # "panic"
    /\ (call.op = "update_price" /\ ret.kind = "orders") =>
           \A i \in DOMAIN ret.orders :
               ret.orders[i].kind = "Open" =>
                   ret.orders[i].entry.price # ret.orders[i].entry.stop

----------------------------------------------------------------------------
(* The position id of a ledger trade *)

\* the ledger holds a trade of this position id
InLedger(id) == \E i \in 1..Len(closed_trades) : closed_trades[i].id = id

\* C37: the trade log_order books when it closes the live position carries
\* the position id of the live entry, whatever id the exit carries; a Close
\* or Stop logged while no position is live returns PositionAlreadyClosed
\* when a ledger trade carries its id, that is the id of an entry, and
\* NoMatchingEntry when none does, as for the id of an exit that closed a
\* position of another id.
C37_LedgerKeepsEntryId ==
    [][ /\ (LogsExit /\ Held /\ ret' = Ok) =>
               /\ Len(closed_trades') = Len(closed_trades) + 1
               /\ closed_trades'[Len(closed_trades')].id = Lt.position_id
        /\ (LogsExit /\ ~Held) =>
               ret' = IF InLedger(call'.position_id)
                      THEN Err("PositionAlreadyClosed", call'.position_id)
                      ELSE Err("NoMatchingEntry", call'.position_id) ]_vars

\* a position was just closed by an exit of another position id
C37_Witness ==
    /\ call.op = "log_order" /\ call.kind \in {"Close", "Stop"}
    /\ ret = Ok
    /\ Booked.id # call.position_id

----------------------------------------------------------------------------
(* The position id of DuplicateEntry *)

\* C38: the DuplicateEntry error of log_order(Open) while a position is
\* live carries the position id of the live entry, not the id of the Open
\* that was rejected.
C38_DuplicateCarriesLiveId ==
    [][ (LogsOpen /\ Held) =>
            ret' = Err("DuplicateEntry", Lt.position_id) ]_vars

\* an Open of id 2 was rejected with the id 1 of the live position
C38_Witness ==
    /\ call.op = "log_order" /\ call.kind = "Open"
    /\ call.position_id = "2"
    /\ Held /\ Lt.position_id = "1"
    /\ ret = Err("DuplicateEntry", "1")

----------------------------------------------------------------------------
(* The signal of a change of sentiment *)

\* C39: over every sequence of sentiments the hysteresis step produces,
\* MACD::signal never reaches its panic: it returns no signal when the
\* sentiment stays, an Exit when it turns Neutral and an Enter when it turns
\* Bullish or Bearish.
C39_SignalIsTotal ==
    call.op = "macd_scan" =>
        /\ ret.kind = "macd_value"
        /\ (ret.sentiment = call.last) <=> (ret.trade_signal = None)
        /\ (ret.sentiment # call.last /\ ret.sentiment = "Neutral") =>
               ret.trade_signal[1].kind = "Exit"
        /\ (ret.sentiment # call.last /\ ret.sentiment # "Neutral") =>
               ret.trade_signal[1].kind = "Enter"

\* a Bearish sentiment turned Neutral and the signal was an Exit of the Sell
C39_Witness ==
    /\ call.op = "macd_scan" /\ call.last = "Bearish"
    /\ ret.kind = "macd_value" /\ ret.sentiment = "Neutral"
    /\ ret.trade_signal = Some(ExitSignal("Sell"))

----------------------------------------------------------------------------
(* The two guards on the length of the MACD strategy's history *)

\* the samples MACD::macd computes for the strategy's call
Samples == Macd(TakeRev(call.history, SamplesNeeded(MacdLength(call.macd)) + 2),
                call.macd).value

\* the sentiment of the last sample differs from that of the one before
SentimentChanged ==
    /\ Len(Samples) >= 2
    /\ Samples[Len(Samples)].sentiment # Samples[Len(Samples) - 1].sentiment

\* C40: whenever the strategy's check of the history's length passes, the
\* last sample lies past the warm-up of MACD::macd: over exactly
\* samples_needed(max(short, long, signal), 0.1) + 1 frames a change of
\* sentiment at the last sample gives a signal.
\* Refuted: the last of samples_needed + 1 samples has the index
\* samples_needed, which is still below `needed`.
C40_GuardsAgree ==
    (/\ SignalAsked
     /\ Len(call.history) = SamplesNeeded(MacdLength(call.macd)) + 1
     /\ SentimentChanged)
        => (ret.kind = "signal" /\ ret.signal # None)

====
